---- MODULE Spec2Model ----
(***************************************************************************)
(* litepop: the episode-action reconciler (Litepop._sync_with_gpodder,     *)
(* _update_episode_actions_cache, _load_auto_queue, mark_episode_completed,*)
(* the reset key), the download manager (DownloadManager), the player      *)
(* (Player) with the completion detector (Litepop._playback_monitor) and   *)
(* the formatting of uploads (GPodderSync.upload_episode_actions) of       *)
(* src/litepop.py, as a state machine.                                     *)
(*                                                                         *)
(* Episodes are identified by their media URL (Episode.__eq__), here a     *)
(* small integer.  Progress is the float position/total*100 of the code;   *)
(* it is kept as a reduced fraction so that the comparisons with 95 and 98 *)
(* are exact.  Timestamps are opaque strings in the code, here small       *)
(* integers (0 is the empty string).  Positions and durations of the       *)
(* player are whole seconds; the float thresholds of the detector are      *)
(* written as the integer inequalities they are equal to.                  *)
(*                                                                         *)
(* The threads of the program interleave at the steps below: a run of      *)
(* _sync_with_gpodder is cut at its network requests and at each iteration *)
(* of the loop over the pulled actions (no lock is held there), a          *)
(* _download_worker at its request, its write loop and its two critical    *)
(* sections.  A Timer is a pending call that fires in a step of its own.   *)
(* One iteration of the loop of _playback_monitor is one step, as are one  *)
(* round of Player._monitor_position, the exit of the player process and   *)
(* the wake-up of a monitor_player thread.                                 *)
(***************************************************************************)
EXTENDS Integers, Sequences, FiniteSets, TLC

\* ---------------------------------------------------------------- bounds
\* actions the server returns over all pulls
MaxActions == 2
\* calls of the download API made by the user interface
MaxUserOps == 3
\* cap of the bookkeeping counter of worker runs
MaxRuns == 5
\* start notifications of one url that may be pending at a time
MaxTimers == 1
\* keys the user presses during playback
MaxPlayOps == 2
\* sleeps of 10 s of the position-sync loop
MaxTicks == 5
\* player processes started
MaxSpawns == 3
\* calls of _load_auto_queue
MaxLoads == 2

\* the episode urls
Urls == {1, 2}

\* the empty episode url of a record without one
NoUrl == 0
\* positions carried by actions: both sides of the 30 s threshold of the
\* auto queue and of the 95 % / 98 % thresholds for the totals below
Positions == {30, 31, 48, 49}
\* timestamps carried by pulled actions (0 is the empty string)
Timestamps == {2}
\* the timestamp of an action made locally: utcnow(), later than the
\* timestamps of the actions the server holds
Now == 3
\* totals carried by actions
Totals == {40, 50}
\* value of a numeric field that the record does not carry
Absent == -1
\* longest duration, in seconds, of the episodes whose completion is
\* uploaded and pulled back
MaxDuration == 60

\* ------------------------------------------------------------- constants
\* DownloadManager.max_retries
max_retries == 3
\* a play_selected timer that reads self.current_index when it fires
CurrentAtFire == 0

\* ------------------------------------------------------------- variables
VARIABLES
    cache,        \* Litepop.episode_actions_cache: url -> entry
    cacheKeys,    \* its keys, in insertion order (dict order)
    queue,        \* Litepop.queue: sequence of Episode records
    feeds,        \* urls of the episodes in Litepop.subscriptions
    hasSubs,      \* Litepop.subscriptions is non-empty
    syncPc,       \* position of the thread inside _sync_with_gpodder
    pullLeft,     \* actions of the pulled batch not yet applied
    applied,      \* actions pulled so far
    seenMax,      \* history: largest position applied per url since reset
    everDone,     \* history: some applied action reached 98 % since reset
    allFailed,    \* history: a run of _sync_with_gpodder is under way and
                  \* every request it made so far failed
    downloads,    \* DownloadManager.downloads: urls with a job in the table
    failed,       \* DownloadManager.failed_downloads: url -> attempts
    file,         \* the file at get_episode_filename(url)
    workers,      \* url -> sequence of positions of live _download_worker threads
    retries,      \* url -> the sleeping retry_download threads (each: it
                  \* holds a callback)
    retryPc,      \* url for which retry_download is between its two locks
    userOps,      \* user calls made so far
    server,       \* environment: url -> "unknown", "down" (every request
                  \* fails) or "up"
    runs,         \* history: worker runs of the current automatic series
    lastRet,      \* history: url and value returned by the last download_episode
    localFile,    \* url -> Episode.local_file is set
    timers,       \* url -> pending Timer(0.1) start notifications
    lastCb,       \* history: the last call of a download callback
    series,       \* history: url -> the call that started the current series
    player,       \* the Player object and its monitor_player threads
    det,          \* the local variables of _playback_monitor
    currentIndex, \* Litepop.current_index + 1 (0: none)
    playTimers,   \* pending Timer threads that call play_selected
    cleanTimers,  \* urls with a pending Timer that calls cleanup_file
    lastPoll,     \* history: the last two polls of _playback_monitor
    session,      \* history: completion events since playback started
    exited,       \* history: how the player process of this playback exited
                  \* ("none" once the user stops or restarts playback)
    gpodder,      \* GPodderSync: backend and device_id; the position of
                  \* __init__ (phase); history: the configured id, the
                  \* reply to the device listing, the id it registered
    sent,         \* the actions of the last upload, as they were sent
    lastUpload,   \* history: the last call of upload_episode_actions
    lastPull,     \* history: the last call of get_episode_actions
    psync,        \* the locals last_synced_position and last_sync_time of
                  \* _position_sync_worker
    clock,        \* time.time(), in seconds
    lastSync,     \* history: the last iteration of _position_sync_worker and
                  \* the last successful upload of each url
    running,      \* Litepop.running
    calls,        \* the threads inside Player.play, the player processes
                  \* they started that are alive, and the answer the
                  \* position monitor holds (kept by the actions that split
                  \* Player.play and _monitor_position into their steps)
    adders        \* the threads inside _load_auto_queue (k: the cache key
                  \* they are at, hold: should_add was true and the append
                  \* is still to come), the add-episodes screen (open, items:
                  \* the urls it lists) and the calls of _load_auto_queue

recVars == <<cache, cacheKeys, queue, feeds, hasSubs, syncPc, pullLeft, applied,
             seenMax, everDone, allFailed>>
dlVars == <<downloads, failed, file, workers, retries, retryPc, userOps,
            server, runs, lastRet, localFile, timers, lastCb, series>>
plVars == <<player, det, currentIndex, playTimers, cleanTimers, lastPoll,
            session, exited>>
\* the sync client, the position-sync loop and the main loop
upVars == <<gpodder, sent, lastUpload, lastPull, psync, clock, lastSync,
            running, calls,
                   adders>>
vars == <<cache, cacheKeys, queue, feeds, hasSubs, syncPc, pullLeft, applied,
          seenMax, everDone, allFailed, downloads, failed, file, workers,
          retries, retryPc, userOps, server, runs, lastRet, localFile, timers,
          lastCb, series, player, det, currentIndex, playTimers, cleanTimers,
          lastPoll, session, exited, gpodder, sent, lastUpload, lastPull,
          psync, clock, lastSync, running,
                   calls,
                   adders>>

\* ---------------------------------------------------------------- helpers
Max(a, b) == IF a >= b THEN a ELSE b
Min(a, b) == IF a <= b THEN a ELSE b

RECURSIVE Gcd(_, _)
Gcd(a, b) == IF b = 0 THEN a ELSE Gcd(b, a % b)

\* a progress value num/den, reduced
Frac(n, d) == LET g == Gcd(n, d) IN [num |-> n \div g, den |-> d \div g]
Zero == [num |-> 0, den |-> 1]
Hundred == [num |-> 100, den |-> 1]
\* f >= k and f < k for an integer k
AtLeast(f, k) == f.num >= k * f.den
Below(f, k) == f.num < k * f.den

\* (position / total) * 100
Percent(position, total) == Frac(100 * position, total)
\* min(progress, 100.0)
Cap100(f) == IF AtLeast(f, 100) THEN Hundred ELSE f

SeqToSet(s) == {s[i] : i \in 1..Len(s)}
InSeq(x, s) == \E i \in 1..Len(s) : s[i] = x

\* ------------------------------------------------------------ the cache
\* the entry _update_episode_actions_cache creates, also the defaults of
\* _get_episode_server_status
NewEntry == [progress |-> Zero, position |-> 0, total |-> -1,
             server_completed |-> FALSE, last_action |-> "unknown",
             last_timestamp |-> 0]

\* an action as get_episode_actions returns it: numeric fields are
\* non-negative when present
Actions ==
    [episode : Urls, action : {"play"}, timestamp : Timestamps,
     position : Positions \cup {Absent}, total : Totals \cup {Absent}]
    \cup [episode : Urls, action : {"download"}, timestamp : Timestamps,
          position : {Absent, 49}, total : {Absent, 50}]
    \cup [episode : Urls \cup {NoUrl}, action : {"delete"}, timestamp : Timestamps,
          position : {Absent}, total : {Absent}]

\* action.get("position", 0) and action.get("total", -1)
GetPosition(a) == IF a.position = Absent THEN 0 ELSE a.position
GetTotal(a) == IF a.total = Absent THEN -1 ELSE a.total


\* cache.get(url, defaults): the entry, or the defaults for an unknown url
Status(c, keys, u) == IF InSeq(u, keys) THEN c[u] ELSE NewEntry

\* variant of ApplyPlay: the incoming position overwrites the stored one
ApplyPlayOverwrite(entry, a) ==
    LET position == GetPosition(a)
        total == GetTotal(a)
        e1 == IF position > 0 THEN [entry EXCEPT !.position = position]
              ELSE entry
        progress == Percent(e1.position, total)
    IN  IF total > 0
        THEN [e1 EXCEPT !.total = total,
                        !.progress = Cap100(progress),
                        !.server_completed =
                            IF AtLeast(progress, 98) THEN TRUE ELSE @]
        ELSE e1

\* variant of ApplyPlay: the completed flag follows the progress both ways
ApplyPlayClearing(entry, a) ==
    LET position == GetPosition(a)
        total == GetTotal(a)
        e1 == IF position > 0
              THEN [entry EXCEPT !.position = Max(entry.position, position)]
              ELSE entry
        progress == Percent(e1.position, total)
    IN  IF total > 0
        THEN [e1 EXCEPT !.total = total,
                        !.progress = Cap100(progress),
                        !.server_completed = AtLeast(progress, 98)]
        ELSE e1

\* the "play" branch of the loop body
ApplyPlay(entry, a) ==
    LET position == GetPosition(a)
        total == GetTotal(a)
        e1 == IF position > 0
              THEN [entry EXCEPT !.position = Max(entry.position, position)]
              ELSE entry
        progress == Percent(e1.position, total)
    IN  IF total > 0
        THEN [e1 EXCEPT !.total = total,
                        !.progress = Cap100(progress),
                        !.server_completed =
                            IF AtLeast(progress, 98) THEN TRUE ELSE @]
        ELSE e1

\* variant of ApplyDownload: a download marks the episode completed
ApplyDownloadCompletes(entry, a) ==
    [entry EXCEPT !.server_completed = TRUE, !.progress = Hundred]

\* the "download" branch of the loop body: it only logs
ApplyDownload(entry, a) == entry

\* one iteration of the loop of _update_episode_actions_cache on an entry
ApplyToEntry(entry, a) ==
    LET e1 == [entry EXCEPT !.last_action = a.action,
                            !.last_timestamp = a.timestamp]
    IN  IF a.action = "play" THEN ApplyPlay(e1, a)
        ELSE IF a.action = "download" THEN ApplyDownload(e1, a)
        ELSE e1

\* ------------------------------------------------------------ episodes
\* the duration the feed gives for an episode (0: the feed gives none)
FeedDuration(u) == IF u % 2 = 1 THEN 50 ELSE 0

\* Episode(found_episode)
NewEpisode(u) == [url |-> u, position |-> 0, progress |-> Zero,
                  completed |-> FALSE, server_completed |-> FALSE,
                  duration |-> FeedDuration(u)]

QueueUrls(q) == {q[i].url : i \in 1..Len(q)}

\* ---------------------------------------------------- download manager
NoFailure == -1
\* the state download_episode reads and writes
DlState == [downloads |-> downloads, failed |-> failed, file |-> file,
            workers |-> workers, localFile |-> localFile, timers |-> timers,
            ret |-> FALSE]

\* a _download_worker thread: its position, its local current_attempts, and
\* whether it was given a callback
NewWorker == [pc |-> "connect", attempts |-> 0, cb |-> FALSE]

\* is_downloaded: the file exists
IsDownloaded(f, u) == f[u] # "none"

\* variant of DownloadEpisode: the table is not consulted
DownloadEpisodeNoCheck(d, u, callback, force) ==
    IF ~force /\ IsDownloaded(d.file, u)
    THEN [d EXCEPT !.localFile[u] = TRUE, !.ret = TRUE]
    ELSE [d EXCEPT !.downloads = @ \cup {u},
                   !.localFile[u] = FALSE,
                   !.failed[u] = NoFailure,
                   !.workers[u] = Append(@, [NewWorker EXCEPT !.cb = callback]),
                   !.timers[u] = IF callback THEN @ + 1 ELSE @,
                   !.ret = TRUE]

\* download_episode(episode, callback, force) on the download state d; ret
\* is the value returned
DownloadEpisode(d, u, callback, force) ==
    IF ~force /\ IsDownloaded(d.file, u)
    THEN [d EXCEPT !.localFile[u] = TRUE, !.ret = TRUE]
    ELSE IF u \in d.downloads
    THEN [d EXCEPT !.ret = FALSE]
    ELSE [d EXCEPT !.downloads = @ \cup {u},
                   !.localFile[u] = FALSE,
                   !.failed[u] = NoFailure,
                   !.workers[u] = Append(@, [NewWorker EXCEPT !.cb = callback]),
                   !.timers[u] = IF callback THEN @ + 1 ELSE @,
                   !.ret = TRUE]

\* ------------------------------------------------------ the auto queue
\* the first loop of _load_auto_queue on one queued episode
RefreshEpisode(ep, status) ==
    [ep EXCEPT !.server_completed = AtLeast(status.progress, 98),
               !.position = Max(ep.position, status.position)]

\* variant of ShouldAdd: no upper limit on the progress
ShouldAddAnyProgress(entry, u, q) ==
    /\ entry.position > 30
    /\ u \notin QueueUrls(q)

\* should_add of _load_auto_queue
ShouldAdd(entry, u, q) ==
    /\ entry.position > 30
    /\ ~AtLeast(entry.progress, 98)
    /\ Below(entry.progress, 95)
    /\ u \notin QueueUrls(q)

\* the second loop of _load_auto_queue over the cache keys keys[i..], on the
\* queue q and the download state d
RECURSIVE AddFromCache(_, _, _, _, _, _)
AddFromCache(c, keys, fd, i, q, d) ==
    IF i > Len(keys) THEN [queue |-> q, dl |-> d]
    ELSE LET u == keys[i]
             entry == c[u]
         IN  IF ShouldAdd(entry, u, q) /\ u \in fd
             THEN AddFromCache(c, keys, fd, i + 1,
                      Append(q, [NewEpisode(u) EXCEPT
                                    !.progress = entry.progress,
                                    !.position = entry.position,
                                    !.server_completed =
                                        AtLeast(entry.progress, 98)]),
                      DownloadEpisode(d, u, FALSE, FALSE))
             ELSE AddFromCache(c, keys, fd, i + 1, q, d)

\* _load_auto_queue
LoadAutoQueue(c, keys, fd, q, d) ==
    LET refreshed == [i \in 1..Len(q) |->
                         RefreshEpisode(q[i], Status(c, keys, q[i].url))]
    IN  AddFromCache(c, keys, fd, 1, refreshed, d)

\* the threads that run _load_auto_queue: the one of _sync_worker and the
\* main loop (key 'r')
Loaders == {"periodic", "manual"}

\* no thread is inside _load_auto_queue, the add-episodes screen is closed
NoAdders == [k |-> [t \in Loaders |-> 0], hold |-> [t \in Loaders |-> FALSE],
             open |-> FALSE, items |-> {}, loads |-> 0]

\* the Episode _load_auto_queue appends for the cache entry of u
AutoEpisode(entry, u) ==
    [NewEpisode(u) EXCEPT !.progress = entry.progress,
                          !.position = entry.position,
                          !.server_completed = AtLeast(entry.progress, 98)]

\* the Episode the add-episodes screen appends for u: the fields are taken
\* from the server status when Enter is pressed
ScreenEpisode(status, u) ==
    [NewEpisode(u) EXCEPT !.progress = status.progress,
                          !.position = status.position,
                          !.server_completed = status.server_completed]

\* ------------------------------------------------------------ the player
\* the duration mpv reports for the media of an episode: the one of the
\* feed, 600 s where the feed gives none
MediaDuration(u) == IF FeedDuration(u) > 0 THEN FeedDuration(u) ELSE 600
\* the positions mpv reports while it plays the media, after the start:
\* both sides of 95 % of the duration, and the last two seconds
MediaPositions(u) ==
    LET d == MediaDuration(u)
    IN  {(95 * d - 1) \div 100, (95 * d + 99) \div 100, d - 2, d - 1, d}

Abs(x) == IF x < 0 THEN -x ELSE x

\* Player(): process is "none" (None), "running" or "exited" (poll() is not
\* None); watchers counts the monitor_player threads whose communicate()
\* has returned and that have not yet cleared playing
NewPlayer == [playing |-> FALSE, process |-> "none", position |-> 0,
              duration |-> 0, current_episode |-> NoUrl, watchers |-> 0]

\* Player.get_position and Player.get_duration
GetPlayerPosition(pl) ==
    IF pl.playing /\ pl.current_episode # NoUrl THEN pl.position ELSE 0
GetPlayerDuration(pl) ==
    IF pl.current_episode # NoUrl /\ pl.duration # 0 THEN pl.duration ELSE 0

\* Player.stop, first part: the position is flushed onto the current episode
FlushPosition(q, pl) ==
    IF pl.current_episode # NoUrl /\ pl.position > 0
    THEN [i \in 1..Len(q) |->
             IF q[i].url = pl.current_episode
             THEN [q[i] EXCEPT !.position = pl.position] ELSE q[i]]
    ELSE q

\* variant of Stop: the playing flag is left as it is
StopKeepsPlaying(pl) ==
    [pl EXCEPT !.watchers = IF pl.process = "running" THEN @ + 1 ELSE @,
               !.process = "none"]

\* Player.stop, second part: the process is terminated, which wakes its
\* monitor_player thread, and forgotten
Stop(pl) ==
    [pl EXCEPT !.watchers = IF pl.process = "running" THEN @ + 1 ELSE @,
               !.process = "none",
               !.playing = FALSE]

\* the threads that call Player.play through play_selected: the main loop,
\* the Timer of the completion detector, the Timer of the download callback
Callers == {"ui", "play_next", "download"}

\* _monitor_position holds no answer of mpv
NoTick == -1

\* the threads that send requests over the control socket: the thread of
\* _monitor_position and the main loop
Requesters == {"monitor", "ui"}

\* no thread is inside Player.play, no player process is alive; handle is
\* the process self.process refers to (0: None); tick is the position mpv
\* answered to _monitor_position and that is not written yet; pending are
\* the threads inside _send_mpv_command, seek the argument of the seek
\* request under way
NoCalls == [pc |-> [t \in Callers |-> "idle"],
            index |-> [t \in Callers |-> 0],
            alive |-> {}, handle |-> 0, spawned |-> 0, tick |-> NoTick,
            pending |-> {}, seek |-> 0]

\* Player.play(ep) from the Popen on: the process is started and noted
Spawn(pl, ep) ==
    [pl EXCEPT !.current_episode = ep.url,
               !.process = "running",
               !.playing = TRUE,
               !.duration = ep.duration,
               !.position = ep.position]

\* Player.play(ep) once the file is known to exist, after its self.stop()
Play(pl, ep) ==
    [Stop(pl) EXCEPT !.current_episode = ep.url,
                     !.process = "running",
                     !.playing = TRUE,
                     !.duration = ep.duration,
                     !.position = ep.position]

\* ---------------------------------------------------------- the detector
NewDetector == [consecutive_end_checks |-> 0, last_position |-> 0,
                position_stuck_count |-> 0, stopped_after_9998_count |-> 0,
                was_above_9998 |-> FALSE]

\* the four assignments that clear the counters
ResetCounters(d) ==
    [d EXCEPT !.consecutive_end_checks = 0, !.position_stuck_count = 0,
              !.stopped_after_9998_count = 0, !.was_above_9998 = FALSE]

\* variant of Confirmed: one poll is enough
ConfirmedAtOnce(n) == n >= 1

\* consecutive_end_checks >= 2
Confirmed(n) == n >= 2

\* one iteration of the loop of _playback_monitor on the readings position
\* and duration (seconds), for an episode that is playing: the detector
\* after it, the completion flag of the poll (flag), whether one of the
\* methods 1 to 4 set it (listed), whether the completion is confirmed
\* (fire), and whether the poll ended in the "terminated unexpectedly"
\* branch (abort)
DetectorPoll(d, position, duration, processExited) ==
    LET valid == duration > 0 /\ position > 0
        above == valid /\ 10000 * position >= 9998 * duration
        d1 == IF above THEN [d EXCEPT !.was_above_9998 = TRUE] ELSE d
        m1 == valid /\ (above \/ 2 * (duration - position) < 3)
        m2 == duration > 0 /\ position >= duration
        stuck == /\ valid
                 /\ 5 * Abs(position - d1.last_position) < 1
                 /\ 100 * position >= 98 * duration
        d3 == IF valid
              THEN [d1 EXCEPT !.position_stuck_count =
                                   IF stuck THEN @ + 1 ELSE 0,
                              !.last_position = position]
              ELSE d1
        m3 == stuck /\ d3.position_stuck_count >= 4
        m4 == /\ processExited
              /\ duration > 0
              /\ 100 * position >= 95 * duration
        abort == processExited /\ ~m4
        active == d3.was_above_9998 /\ valid
        stopped == active /\ 10 * Abs(position - d3.last_position) < 1
        d5 == IF active
              THEN [d3 EXCEPT !.stopped_after_9998_count =
                                   IF stopped THEN @ + 1 ELSE 0]
              ELSE d3
        m5 == stopped /\ d5.stopped_after_9998_count >= 4
        listed == m1 \/ m2 \/ m3 \/ m4
        flag == listed \/ m5
        d6 == [d5 EXCEPT !.consecutive_end_checks = IF flag THEN @ + 1 ELSE 0]
        fire == flag /\ Confirmed(d6.consecutive_end_checks)
    IN  IF abort
        THEN [det |-> ResetCounters(d3), flag |-> FALSE, listed |-> FALSE,
              fire |-> FALSE, abort |-> TRUE]
        ELSE [det |-> IF fire THEN ResetCounters(d6) ELSE d6, flag |-> flag,
              listed |-> listed, fire |-> fire, abort |-> FALSE]

\* history records: no poll was made yet; no playback was started yet
NoPoll == [flag |-> FALSE, prev |-> FALSE, fired |-> FALSE,
           prevFired |-> FALSE, listed |-> FALSE, pos |-> 0, dur |-> 0,
           prevPos |-> 0, prevDur |-> 0]
NoSession == [events |-> 0, scheduled |-> 0, polled |-> FALSE]

\* ------------------------------------------------------- the sync client
\* the value of a field that the record does not carry
NoField == "<absent>"
\* the result of config.get for a key that the file does not have
NoneValue == "<None>"
Backends == {"opodsync", "nextcloud"}
\* device_id as the configuration file gives it
ConfiguredIds == {"default", "", "laptop", NoneValue}
\* the reply to the device listing of _resolve_device_id: the request
\* fails ("error"), the body is empty ("nobody"), or a list of device ids
\* (an entry of the list without an id is NoField)
DeviceReplies ==
    {[status |-> "error", ids |-> <<>>], [status |-> "nobody", ids |-> <<>>]}
    \cup {[status |-> "list", ids |-> l] :
             l \in {<<>>, <<"phone">>, <<"phone", "litepop-old">>, <<"">>,
                    <<NoField, "phone">>, <<NoField, "litepop-old">>}}

\* "litepop" in dev_id.lower()
HasTag(id) == id = "litepop-old"

\* _resolve_device_id, run by GPodderSync.__init__
ResolveDeviceId(backend, configured, reply) ==
    IF configured # "default" THEN configured
    ELSE IF backend # "opodsync" THEN "litepop"
    ELSE IF reply.status = "error" THEN "litepop-host"
    ELSE IF reply.status = "nobody" THEN configured
    ELSE IF reply.ids = <<>> THEN "litepop-host"
    ELSE IF \E k \in 1..Len(reply.ids) : HasTag(reply.ids[k])
    THEN "litepop-old"
    ELSE IF reply.ids[1] # NoField THEN reply.ids[1]
    ELSE configured

\* _resolve_device_id calls _register_device: for the id it synthesizes
\* from an empty list
ResolveRegisters(backend, configured, reply) ==
    /\ configured = "default"
    /\ backend = "opodsync"
    /\ reply.status = "list"
    /\ reply.ids = <<>>

\* _verify_device_registration calls _register_device, which posts under
\* opodsync only: the listing is read and does not have the device id
VerifyRegisters(backend, id, reply) ==
    /\ backend = "opodsync"
    /\ reply.status = "list"
    /\ \A k \in 1..Len(reply.ids) : reply.ids[k] # id

\* the GPodderSync object after __init__ for the configured id c and the
\* replies r and v to the two device listings
NewClient(b, c, r, v) ==
    LET id == ResolveDeviceId(b, c, r)
    IN  [backend |-> b, device_id |-> id, phase |-> "ready",
         configured |-> c, listing |-> r,
         registered |-> IF ResolveRegisters(b, c, r) \/ VerifyRegisters(b, id, v)
                        THEN id ELSE NoField]

\* str(x)
Str(x) == IF x = NoneValue THEN "None" ELSE x

\* a string of white space, and str.strip()
Blank == " "
Strip(x) == IF x = Blank THEN "" ELSE x

\* the timestamps of the actions given to upload_episode_actions: none or
\* empty; ISO strings (plain, with Z, with a fraction and Z, with a 'T' but
\* not a date); a string of digits; another string; a number; a number
\* that fromtimestamp rejects
UploadTimestamps == {NoField, "iso", "isoZ", "isoFracZ", "Tgarbage",
                     "digits", "garbage", "number", "hugenumber"}

\* the timestamp branch of upload_episode_actions: the time that is sent
\* (the one of the action, or now) and whether it ends in 'Z'
FormatTimestamp(backend, t) ==
    IF t = NoField THEN [time |-> "now", z |-> TRUE]
    ELSE IF t \in {"Tgarbage", "hugenumber"} THEN [time |-> "now", z |-> TRUE]
    ELSE [time |-> IF t = "garbage" THEN "now" ELSE "given",
          z |-> backend = "opodsync"]

\* a numeric field of an action: a number, a value that is not one, or no
\* field
Num(n) == [kind |-> "num", n |-> n]
BadNum == [kind |-> "bad", n |-> 0]
NoNum == [kind |-> "absent", n |-> 0]

\* int(float(x)) >= 0 of the fields position and started: the value sent,
\* NoNum when the field is left out
FormatCount(x) ==
    IF x.kind = "absent" THEN Num(0)
    ELSE IF x.kind = "bad" THEN Num(0)
    ELSE IF x.n >= 0 THEN x
    ELSE NoNum

\* the field total: sent only when it is a positive number
FormatTotal(x) ==
    IF x.kind = "num" /\ x.n > 0 THEN x ELSE NoNum

\* the record upload_episode_actions builds from the action a (the guid,
\* copied when it is not empty, is left out)
FormatAction(g, a) ==
    [podcast |-> Strip(a.podcast),
     episode |-> Strip(a.episode),
     action |-> a.action,
     timestamp |-> FormatTimestamp(g.backend, a.timestamp),
     device |-> IF g.backend = "opodsync" THEN Str(g.device_id) ELSE NoField,
     position |-> IF a.action = "play" THEN FormatCount(a.position) ELSE NoNum,
     started |-> IF a.action = "play" THEN FormatCount(a.started) ELSE NoNum,
     total |-> IF a.action = "play" THEN FormatTotal(a.total) ELSE NoNum]

\* not action.get("podcast") or not action.get("episode")
Skipped(a) ==
    \/ a.podcast = "" \/ a.podcast = NoField
    \/ a.episode = "" \/ a.episode = NoField

\* the loop of upload_episode_actions: the records that are sent
RECURSIVE FormatActions(_, _)
FormatActions(g, as) ==
    IF as = <<>> THEN <<>>
    ELSE LET a == Head(as)
             rest == FormatActions(g, Tail(as))
         IN  IF Skipped(a) THEN rest ELSE <<FormatAction(g, a)>> \o rest

\* history record: upload_episode_actions was not called yet
NoUpload == [input |-> <<>>, requested |-> FALSE, result |-> "none",
             raised |-> FALSE]

\* a numeric field that is JSON null
NullNum == [kind |-> "null", n |-> 0]

\* the records of a reply to get_episode_actions: the episode and the
\* action are a string, absent or null; the position is a number, a value
\* that does not convert, null or absent
PulledRecords ==
    [episode : {"media", "media2", NoField, NoneValue},
     action : {"play", "PLAY", NoField, NoneValue},
     position : {Num(30), BadNum, NullNum, NoNum}]

\* str.lower()
Lower(x) == IF x = "PLAY" THEN "play" ELSE x

\* isinstance(action, dict) and "episode" in action and "action" in action
HasKeys(a) == a.episode # NoField /\ a.action # NoField

\* action.get("action", "").lower() raises for a value that is not a str
CleanRaises(a) == HasKeys(a) /\ a.action = NoneValue

\* int(float(x)) >= 0 of a field of a pulled record: 0 for null, left out
\* when it does not convert or is negative
CleanCount(x) ==
    IF x.kind = "null" THEN Num(0)
    ELSE IF x.kind = "num" /\ x.n >= 0 THEN x
    ELSE NoNum

\* cleaned_action
CleanAction(a) ==
    [episode |-> a.episode, action |-> Lower(a.action),
     position |-> CleanCount(a.position)]

\* the loop "validate and clean actions" of get_episode_actions
RECURSIVE CleanActions(_)
CleanActions(as) ==
    IF as = <<>> THEN <<>>
    ELSE IF HasKeys(Head(as))
    THEN <<CleanAction(Head(as))>> \o CleanActions(Tail(as))
    ELSE CleanActions(Tail(as))

\* the actions get_episode_actions returns for the records as of the reply:
\* none when the loop raises, which the outer except catches
GetEpisodeActions(as) ==
    IF \E k \in 1..Len(as) : CleanRaises(as[k]) THEN <<>>
    ELSE CleanActions(as)

\* history record: get_episode_actions was not called yet
NoPull == [input |-> <<>>, actions |-> <<>>]

\* the actions given to upload_episode_actions
PlainAction == [podcast |-> "feed", episode |-> "media", action |-> "play",
                timestamp |-> "isoZ", device |-> NoField,
                position |-> Num(48), started |-> Num(0), total |-> Num(50)]
UploadInputs ==
    {[PlainAction EXCEPT !.podcast = x, !.episode = y] :
        x \in {"feed", "", NoField, Blank}, y \in {"media", ""}}
    \cup {[PlainAction EXCEPT !.timestamp = t, !.device = dv] :
            t \in UploadTimestamps, dv \in {NoField, "phone"}}
    \cup {[PlainAction EXCEPT !.position = x, !.total = y] :
            x \in {NoNum, BadNum, Num(-5), Num(0), Num(48)},
            y \in {NoNum, BadNum, Num(-1), Num(0), Num(50)}}
    \cup {[PlainAction EXCEPT !.action = "download", !.device = dv] :
            dv \in {NoField, "phone"}}

\* ------------------------------------------------------------- initial
\* Litepop.__init__: the reconciler
InitSync ==
    /\ cache = [u \in Urls |-> NewEntry]
    /\ cacheKeys = <<>>
    /\ queue = <<>>
    /\ feeds = {}
    /\ hasSubs = FALSE
    /\ syncPc = "idle"
    /\ pullLeft = 0
    /\ applied = 0
    /\ seenMax = [u \in Urls |-> 0]
    /\ everDone = [u \in Urls |-> FALSE]
    /\ allFailed = FALSE

\* DownloadManager.__init__
InitDownloads ==
    /\ downloads = {}
    /\ failed = [u \in Urls |-> NoFailure]
    /\ file = [u \in Urls |-> "none"]
    /\ workers = [u \in Urls |-> <<>>]
    /\ retries = [u \in Urls |-> <<>>]
    /\ retryPc = NoUrl
    /\ userOps = 0
    /\ server = [u \in Urls |-> "unknown"]
    /\ runs = [u \in Urls |-> 0]
    /\ lastRet = [url |-> NoUrl, ret |-> FALSE, inflight |-> FALSE]
    /\ localFile = [u \in Urls |-> FALSE]
    /\ timers = [u \in Urls |-> 0]
    /\ lastCb = [url |-> NoUrl, file |-> "none", by |-> "none"]
    /\ series = [u \in Urls |-> "none"]

\* Player.__init__, the start of _playback_monitor
InitPlayer ==
    /\ player = NewPlayer
    /\ det = NewDetector
    /\ currentIndex = 0
    /\ playTimers = <<>>
    /\ cleanTimers = {}
    /\ lastPoll = NoPoll
    /\ session = NoSession
    /\ exited = "none"

\* the start of _position_sync_worker: both dicts are empty (get(url, 0)
\* gives 0 for a url without an entry)
ClockStart == 100
NoSync == [uploaded |-> FALSE, url |-> NoUrl, playing |-> FALSE,
           device |-> "", time |-> 0, pos |-> 0,
           last |-> [u \in Urls |-> [time |-> 0, pos |-> 0]]]
InitLoops ==
    /\ psync = [u \in Urls |-> [time |-> 0, pos |-> 0]]
    /\ clock = ClockStart
    /\ lastSync = NoSync
    /\ running = TRUE
    /\ calls = NoCalls
    /\ adders = NoAdders

\* GPodderSync.__init__ with the default configuration and no server
InitClient ==
    /\ gpodder = NewClient("opodsync", "default",
                           [status |-> "error", ids |-> <<>>],
                           [status |-> "error", ids |-> <<>>])
    /\ sent = <<>>
    /\ lastUpload = NoUpload
    /\ lastPull = NoPull
    /\ InitLoops

Init == InitSync /\ InitDownloads /\ InitPlayer /\ InitClient

\* the downloads of both episodes have finished, nothing was pulled yet
InitDownloaded ==
    /\ cache = [u \in Urls |-> NewEntry]
    /\ cacheKeys = <<>>
    /\ feeds = Urls
    /\ hasSubs = TRUE
    /\ syncPc = "idle"
    /\ pullLeft = 0
    /\ applied = 0
    /\ seenMax = [u \in Urls |-> 0]
    /\ everDone = [u \in Urls |-> FALSE]
    /\ allFailed = FALSE
    /\ downloads = {}
    /\ failed = [u \in Urls |-> NoFailure]
    /\ file = [u \in Urls |-> "complete"]
    /\ workers = [u \in Urls |-> <<>>]
    /\ retries = [u \in Urls |-> <<>>]
    /\ retryPc = NoUrl
    /\ userOps = 0
    /\ server = [u \in Urls |-> "up"]
    /\ runs = [u \in Urls |-> 1]
    /\ lastRet = [url |-> 2, ret |-> TRUE, inflight |-> FALSE]
    /\ localFile = [u \in Urls |-> TRUE]
    /\ timers = [u \in Urls |-> 0]
    /\ lastCb = [url |-> NoUrl, file |-> "none", by |-> "none"]
    /\ series = [u \in Urls |-> "download"]
    /\ InitPlayer

\* the state in which both episodes were added to the queue by the
\* add-episodes screen, in either order, and their downloads have finished
InitQueued ==
    /\ queue = <<NewEpisode(2), NewEpisode(1)>>
    /\ InitDownloaded

\* the same with one episode in the queue, whose duration d is the one the
\* player reported when it was played
InitTrip ==
    /\ \E d \in 1..MaxDuration :
          queue = <<[NewEpisode(1) EXCEPT !.duration = d]>>
    /\ InitDownloaded
    /\ InitClient

InitPlay == InitQueued /\ InitClient

\* the state after construction under any configuration and any reply of
\* the server to the device listing
InitUpload ==
    /\ InitSync
    /\ InitDownloads
    /\ InitPlayer
    /\ \E b \in Backends, c \in ConfiguredIds, r \in DeviceReplies :
          gpodder = NewClient(b, c, r, r)
    /\ sent = <<>>
    /\ lastUpload = NoUpload
    /\ lastPull = NoPull
    /\ InitLoops

\* ------------------------------------------------- _sync_with_gpodder
\* the start of a run, up to the reply of get_episode_actions: a batch of
\* n actions (none when the request fails; fail: the requests so far failed)
SyncBegin ==
    /\ syncPc = "idle"
    /\ \E n \in 0..(MaxActions - applied), fail \in BOOLEAN :
         /\ fail => n = 0
         /\ pullLeft' = n
         /\ applied' = applied + n
         /\ allFailed' = fail
    /\ syncPc' = "pull"
    /\ UNCHANGED <<cache, cacheKeys, queue, feeds, hasSubs, seenMax, everDone>>
    /\ UNCHANGED dlVars
    /\ UNCHANGED plVars
    /\ UNCHANGED upVars

\* one iteration of the loop of _update_episode_actions_cache
SyncApply ==
    /\ syncPc = "pull"
    /\ pullLeft > 0
    /\ pullLeft' = pullLeft - 1
    /\ \E a \in Actions :
         LET u == a.episode IN
         IF u = NoUrl
         THEN UNCHANGED <<cache, cacheKeys, seenMax, everDone>>
         ELSE /\ cache' = [cache EXCEPT
                              ![u] = ApplyToEntry(Status(cache, cacheKeys, u), a)]
              /\ cacheKeys' = IF InSeq(u, cacheKeys) THEN cacheKeys
                              ELSE Append(cacheKeys, u)
              /\ seenMax' = [seenMax EXCEPT ![u] =
                               IF a.action = "play" /\ a.position # Absent
                               THEN Max(@, a.position) ELSE @]
              /\ everDone' = [everDone EXCEPT ![u] =
                                \/ @
                                \/ /\ a.action = "play"
                                   /\ a.total # Absent
                                   /\ AtLeast(cache'[u].progress, 98)]
    /\ UNCHANGED <<queue, feeds, hasSubs, syncPc, applied, allFailed>>
    /\ UNCHANGED dlVars
    /\ UNCHANGED plVars
    /\ UNCHANGED upVars

\* get_subscriptions and the fetch of the feeds: with no subscription known
\* and none returned (or the request failed) the run ends; with
\* subscriptions known and none returned the known feeds are fetched again
\* (fd: the episodes they list now; fail: no fetch succeeded, the episodes
\* stay); else the feeds returned are fetched (some: a feed could be fetched)
SyncSubs ==
    /\ syncPc = "pull"
    /\ pullLeft = 0
    /\ \/ /\ ~hasSubs
          /\ syncPc' = "idle"
          /\ allFailed' = FALSE
          /\ UNCHANGED <<feeds, hasSubs>>
       \/ /\ hasSubs
          /\ \E fd \in SUBSET Urls, fail \in BOOLEAN :
                /\ fail => fd = feeds
                /\ feeds' = fd
                /\ allFailed' = (allFailed /\ fail)
          /\ syncPc' = "load"
          /\ UNCHANGED hasSubs
       \/ \E fd \in SUBSET Urls, some \in BOOLEAN :
             /\ ~some => fd = {}
             /\ feeds' = fd
             /\ hasSubs' = some
             /\ syncPc' = "load"
             /\ allFailed' = FALSE
    /\ UNCHANGED <<cache, cacheKeys, queue, pullLeft, applied, seenMax, everDone>>
    /\ UNCHANGED dlVars
    /\ UNCHANGED plVars
    /\ UNCHANGED upVars

\* _load_auto_queue, the last step of the run
SyncLoad ==
    /\ syncPc = "load"
    /\ LET r == LoadAutoQueue(cache, cacheKeys, feeds, queue, DlState) IN
         /\ queue' = r.queue
         /\ downloads' = r.dl.downloads
         /\ failed' = r.dl.failed
         /\ workers' = r.dl.workers
         /\ localFile' = r.dl.localFile
         /\ runs' = [u \in Urls |->
                       IF Len(r.dl.workers[u]) > Len(workers[u]) THEN 1
                       ELSE runs[u]]
         /\ series' = [u \in Urls |->
                         IF Len(r.dl.workers[u]) > Len(workers[u])
                         THEN "download" ELSE series[u]]
    /\ syncPc' = "idle"
    /\ allFailed' = FALSE
    /\ UNCHANGED <<cache, cacheKeys, feeds, hasSubs, pullLeft, applied, seenMax,
                   everDone>>
    /\ UNCHANGED <<file, retries, retryPc, userOps, server, lastRet, timers,
                   lastCb>>
    /\ UNCHANGED plVars
    /\ UNCHANGED upVars

\* ------------------------------------------------------ user interface
\* the reset key 'R' on the queue entry i
ResetProgress(i) ==
    /\ i \in 1..Len(queue)
    /\ LET ep == queue[i]
           u == ep.url
       IN /\ queue' = [queue EXCEPT ![i] =
                         [ep EXCEPT !.position = 0, !.completed = FALSE,
                                    !.server_completed = FALSE,
                                    !.progress = Zero]]
          /\ IF InSeq(u, cacheKeys)
             THEN /\ cache' = [cache EXCEPT ![u] =
                       [progress |-> Zero, position |-> 0,
                        total |-> IF ep.duration > 0 THEN ep.duration ELSE -1,
                        server_completed |-> FALSE, last_action |-> "play",
                        last_timestamp |-> Now]]
                  /\ seenMax' = [seenMax EXCEPT ![u] = 0]
                  /\ everDone' = [everDone EXCEPT ![u] = FALSE]
             ELSE UNCHANGED <<cache, seenMax, everDone>>
    /\ UNCHANGED <<cacheKeys, feeds, hasSubs, syncPc, pullLeft, applied,
                   allFailed>>
    /\ UNCHANGED dlVars
    /\ UNCHANGED plVars
    /\ UNCHANGED upVars

\* mark_episode_completed(queue[i]) on the queue q and the cache c with
\* keys keys; ok: the upload succeeded
MarkCompleted(q, c, keys, i, ok) ==
    LET ep == q[i]
        u == ep.url
        final_position == IF ep.duration > 0
                          THEN (ep.duration * 99) \div 100
                          ELSE ep.position
        total_duration == IF ep.duration > 0 THEN ep.duration
                          ELSE final_position
    IN  [queue |-> [q EXCEPT ![i] =
                       [ep EXCEPT !.completed = TRUE, !.progress = Hundred,
                                  !.server_completed = TRUE]],
         cache |-> IF ok
                   THEN [c EXCEPT ![u] =
                           [progress |-> Hundred, position |-> final_position,
                            total |-> total_duration, server_completed |-> TRUE,
                            last_action |-> "play", last_timestamp |-> Now]]
                   ELSE c,
         cacheKeys |-> IF ok /\ ~InSeq(u, keys) THEN Append(keys, u) ELSE keys]

\* mark_episode_completed on the queue entry i; ok: the upload succeeded;
\* the file of an episode that has one is removed by a timer
MarkEpisodeCompleted(i, ok) ==
    /\ i \in 1..Len(queue)
    /\ LET m == MarkCompleted(queue, cache, cacheKeys, i, ok)
       IN /\ queue' = m.queue
          /\ cache' = m.cache
          /\ cacheKeys' = m.cacheKeys
    /\ cleanTimers' = IF localFile[queue[i].url]
                      THEN cleanTimers \cup {queue[i].url}
                      ELSE cleanTimers
    /\ UNCHANGED <<feeds, hasSubs, syncPc, pullLeft, applied, seenMax, everDone,
                   allFailed>>
    /\ UNCHANGED dlVars
    /\ UNCHANGED <<player, det, currentIndex, playTimers, lastPoll, session,
                   exited>>
    /\ UNCHANGED upVars

Sync == SyncBegin \/ SyncApply \/ SyncSubs \/ SyncLoad

NextMerge ==
    \/ Sync
    \/ \E i \in 1..Cardinality(Urls) : ResetProgress(i)

NextSync ==
    \/ Sync
    \/ \E i \in 1..Cardinality(Urls) : ResetProgress(i)
    \/ \E i \in 1..Cardinality(Urls), ok \in BOOLEAN : MarkEpisodeCompleted(i, ok)

\* the sync path and the reset key
SpecMerge == Init /\ [][NextMerge]_vars
\* the reconciler: the sync path, the reset key and the completion marking
SpecSync == Init /\ [][NextSync]_vars

\* ------------------------------------------------- download manager
RemoveAt(sq, i) == [j \in 1..(Len(sq) - 1) |-> IF j < i THEN sq[j] ELSE sq[j + 1]]

\* a call of download_episode(u, callback, force) made as one step: the new
\* download state, the returned value, and the count of worker runs of the
\* series (first: the call is not made by a retry thread)
CallDownload(u, callback, force, first) ==
    LET r == DownloadEpisode(DlState, u, callback, force)
        started == Len(r.workers[u]) > Len(workers[u])
    IN  /\ r.timers[u] <= MaxTimers
        /\ downloads' = r.downloads
        /\ failed' = r.failed
        /\ workers' = r.workers
        /\ localFile' = r.localFile
        /\ timers' = r.timers
        /\ runs' = [runs EXCEPT ![u] =
                      IF ~started THEN @
                      ELSE IF first THEN 1 ELSE Min(@ + 1, MaxRuns)]
        /\ series' = [series EXCEPT ![u] =
                        IF started /\ first
                        THEN (IF force THEN "manual" ELSE "download")
                        ELSE @]
        /\ lastRet' = [url |-> u, ret |-> r.ret, inflight |-> u \in downloads]

\* _on_download_complete(episode), the callback given by play_selected and
\* by the key 'v': when the episode is the current one and nothing plays, a
\* timer is started that will call play_selected(self.current_index)
OnDownloadComplete(u, f, by) ==
    /\ lastCb' = [url |-> u, file |-> f, by |-> by]
    /\ playTimers' =
          IF /\ currentIndex \in 1..Len(queue)
             /\ queue[currentIndex].url = u
             /\ ~player.playing
          THEN Append(playTimers, CurrentAtFire)
          ELSE playTimers

\* download_episode(episode, callback) called through the user interface:
\* without a callback by the add-episodes screen, with one by play_selected
\* and the key 'v'
UserDownload(u) ==
    /\ userOps < MaxUserOps
    /\ userOps' = userOps + 1
    /\ \E callback \in BOOLEAN : CallDownload(u, callback, FALSE, TRUE)
    /\ UNCHANGED <<file, retries, retryPc, server, lastCb>>
    /\ UNCHANGED recVars
    /\ UNCHANGED plVars
    /\ UNCHANGED upVars

\* retry_download, first lock: the attempt counter is reset
RetryReset(u) ==
    /\ userOps < MaxUserOps
    /\ retryPc = NoUrl
    /\ userOps' = userOps + 1
    /\ failed' = [failed EXCEPT ![u] = IF @ # NoFailure THEN 0 ELSE @]
    /\ retryPc' = u
    /\ UNCHANGED <<downloads, file, workers, retries, server, runs, lastRet,
                   localFile, timers, lastCb, series>>
    /\ UNCHANGED recVars
    /\ UNCHANGED plVars
    /\ UNCHANGED upVars

\* retry_download, the forced download_episode it returns; its caller, the
\* key 'v', gives a callback
RetryStart ==
    /\ retryPc # NoUrl
    /\ CallDownload(retryPc, TRUE, TRUE, TRUE)
    /\ retryPc' = NoUrl
    /\ UNCHANGED <<file, retries, userOps, server, lastCb>>
    /\ UNCHANGED recVars
    /\ UNCHANGED plVars
    /\ UNCHANGED upVars

\* cleanup_file on the file of u (delete_episode)
CleanupFile(u) ==
    /\ userOps < MaxUserOps
    /\ userOps' = userOps + 1
    /\ file' = [file EXCEPT ![u] = "none"]
    /\ UNCHANGED <<downloads, failed, workers, retries, retryPc, server, runs,
                   lastRet, localFile, timers, lastCb, series>>
    /\ UNCHANGED recVars
    /\ UNCHANGED plVars
    /\ UNCHANGED upVars

\* the Timer(0.1) started by download_episode fires: the callback is called
TimerFire(u) ==
    /\ timers[u] > 0
    /\ timers' = [timers EXCEPT ![u] = @ - 1]
    /\ OnDownloadComplete(u, file[u], "timer")
    /\ UNCHANGED <<downloads, failed, file, workers, retries, retryPc, userOps,
                   server, runs, lastRet, localFile, series>>
    /\ UNCHANGED recVars
    /\ UNCHANGED <<player, det, currentIndex, cleanTimers, lastPoll, session,
                   exited>>
    /\ UNCHANGED upVars

\* _download_worker: requests.get and raise_for_status, then open(filename,
\* "wb"), which creates or truncates the final file; on the first request
\* the server turns out to be down for good or not
WorkerConnect(u, i) ==
    /\ i \in 1..Len(workers[u])
    /\ workers[u][i].pc = "connect"
    /\ \E s \in (IF server[u] = "unknown" THEN {"down", "up"} ELSE {server[u]}),
          ok \in BOOLEAN :
          /\ server' = [server EXCEPT ![u] = s]
          /\ IF s = "up" /\ ok
             THEN /\ workers' = [workers EXCEPT ![u][i].pc = "writing"]
                  /\ file' = [file EXCEPT ![u] = "partial"]
             ELSE /\ workers' = [workers EXCEPT ![u][i].pc = "failed"]
                  /\ UNCHANGED file
    /\ UNCHANGED <<downloads, failed, retries, retryPc, userOps, runs, lastRet,
                   localFile, timers, lastCb, series>>
    /\ UNCHANGED recVars
    /\ UNCHANGED plVars
    /\ UNCHANGED upVars

\* _download_worker: the loop over the chunks, to its end or to an
\* exception; at its end episode.local_file is set and the callback, if
\* there is one, is called
WorkerWrite(u, i) ==
    /\ i \in 1..Len(workers[u])
    /\ workers[u][i].pc = "writing"
    /\ \/ /\ workers' = [workers EXCEPT ![u][i].pc = "finally"]
          /\ file' = [file EXCEPT ![u] = "complete"]
          /\ localFile' = [localFile EXCEPT ![u] = TRUE]
          /\ IF workers[u][i].cb
             THEN OnDownloadComplete(u, "complete", "worker")
             ELSE UNCHANGED <<lastCb, playTimers>>
       \/ /\ workers' = [workers EXCEPT ![u][i].pc = "failed"]
          /\ UNCHANGED <<file, localFile, lastCb, playTimers>>
    /\ UNCHANGED <<downloads, failed, retries, retryPc, userOps, server, runs,
                   lastRet, timers, series>>
    /\ UNCHANGED recVars
    /\ UNCHANGED <<player, det, currentIndex, cleanTimers, lastPoll, session,
                   exited>>
    /\ UNCHANGED upVars

\* _download_worker, except: the failure is recorded under the lock
WorkerRecordFailure(u, i) ==
    /\ i \in 1..Len(workers[u])
    /\ workers[u][i].pc = "failed"
    /\ LET current_attempts ==
               (IF failed[u] = NoFailure THEN 0 ELSE failed[u]) + 1
       IN /\ failed' = [failed EXCEPT ![u] = current_attempts]
          /\ workers' = [workers EXCEPT ![u][i].pc = "recorded",
                                        ![u][i].attempts = current_attempts]
    /\ UNCHANGED <<downloads, file, retries, retryPc, userOps, server, runs,
                   lastRet, localFile, timers, lastCb, series>>
    /\ UNCHANGED recVars
    /\ UNCHANGED plVars
    /\ UNCHANGED upVars

\* _download_worker, except: the partial file is removed and, below the
\* limit, a retry thread is started
WorkerScheduleRetry(u, i) ==
    /\ i \in 1..Len(workers[u])
    /\ workers[u][i].pc = "recorded"
    /\ file' = [file EXCEPT ![u] = "none"]
    /\ retries' = [retries EXCEPT ![u] =
                      IF workers[u][i].attempts < max_retries
                      THEN Append(@, workers[u][i].cb) ELSE @]
    /\ workers' = [workers EXCEPT ![u][i].pc = "finally"]
    /\ UNCHANGED <<downloads, failed, retryPc, userOps, server, runs, lastRet,
                   localFile, timers, lastCb, series>>
    /\ UNCHANGED recVars
    /\ UNCHANGED plVars
    /\ UNCHANGED upVars

\* _download_worker, finally: the job leaves the table and the thread ends
WorkerFinally(u, i) ==
    /\ i \in 1..Len(workers[u])
    /\ workers[u][i].pc = "finally"
    /\ downloads' = downloads \ {u}
    /\ workers' = [workers EXCEPT ![u] = RemoveAt(@, i)]
    /\ UNCHANGED <<failed, file, retries, retryPc, userOps, server, runs,
                   lastRet, localFile, timers, lastCb, series>>
    /\ UNCHANGED recVars
    /\ UNCHANGED plVars
    /\ UNCHANGED upVars

\* the retry thread wakes up: download_episode, with the callback of the
\* failed worker, unless the file exists
RetryFire(u) ==
    /\ retries[u] # <<>>
    /\ retries' = [retries EXCEPT ![u] = Tail(@)]
    /\ IF file[u] = "none"
       THEN CallDownload(u, Head(retries[u]), FALSE, FALSE)
       ELSE UNCHANGED <<downloads, failed, workers, runs, lastRet, localFile,
                        timers, series>>
    /\ UNCHANGED <<file, retryPc, userOps, server, lastCb>>
    /\ UNCHANGED recVars
    /\ UNCHANGED plVars
    /\ UNCHANGED upVars

Worker(u) ==
    \E i \in 1..Len(workers[u]) :
        \/ WorkerConnect(u, i)
        \/ WorkerWrite(u, i)
        \/ WorkerRecordFailure(u, i)
        \/ WorkerScheduleRetry(u, i)
        \/ WorkerFinally(u, i)

\* the first download of an episode, not yet requested
FirstDownload(u) ==
    /\ server[u] = "unknown"
    /\ workers[u] = <<>>
    /\ UserDownload(u)

\* the urls the user interface downloads in SpecDL: the operations of the
\* download manager touch the state of one url each
DlUrls == {1}

NextDL ==
    \/ \E u \in DlUrls : UserDownload(u) \/ RetryReset(u) \/ CleanupFile(u)
    \/ RetryStart
    \/ \E u \in DlUrls : Worker(u) \/ RetryFire(u) \/ TimerFire(u)

NextAuto ==
    \/ \E u \in Urls : FirstDownload(u)
    \/ \E u \in Urls : Worker(u) \/ RetryFire(u) \/ TimerFire(u)

\* the download manager, its callers and its threads
SpecDL == Init /\ [][NextDL]_vars
\* the download manager when nobody intervenes after the first request;
\* every started thread keeps running
SpecAutoRetry ==
    /\ Init
    /\ [][NextAuto]_vars
    /\ \A u \in Urls :
          WF_vars(Worker(u)) /\ WF_vars(RetryFire(u)) /\ WF_vars(TimerFire(u))

\* ------------------------------------------------------ playback
\* the variables a call of download_episode writes
dlCallVars == <<downloads, failed, workers, localFile, timers, runs, series,
                lastRet>>

\* play_selected(i): the episode is downloaded first when its file is
\* missing, else it is played and becomes the current one
PlaySelected(i) ==
    IF i \notin 1..Len(queue)
    THEN UNCHANGED <<queue, player, currentIndex, session, exited, dlCallVars>>
    ELSE LET u == queue[i].url
             q1 == FlushPosition(queue, player)
         IN  IF ~IsDownloaded(file, u)
             THEN /\ IF u \in downloads
                     THEN UNCHANGED dlCallVars
                     ELSE CallDownload(u, TRUE, FALSE, TRUE)
                  /\ UNCHANGED <<queue, player, currentIndex, session, exited>>
             ELSE IF localFile[u]
             THEN /\ queue' = q1
                  /\ player' = Play(player, q1[i])
                  /\ currentIndex' = i
                  /\ session' = NoSession
                  /\ exited' = "none"
                  /\ UNCHANGED dlCallVars
             ELSE UNCHANGED <<queue, player, currentIndex, session, exited,
                              dlCallVars>>

\* what play_selected leaves alone, apart from the timers and the count of
\* user calls
playFrame == <<cache, cacheKeys, feeds, hasSubs, syncPc, pullLeft, applied,
               seenMax, everDone, allFailed, file, retries, retryPc, server, lastCb, det,
               cleanTimers, lastPoll, gpodder, sent, lastUpload, lastPull,
               psync, clock, lastSync, running,
                   calls,
                   adders>>

\* the user plays another queue entry i: the space key on a selected entry
\* that has a local file, or play_next / play_previous
UserPlay(i) ==
    /\ userOps < MaxPlayOps
    /\ i \in 1..Len(queue)
    /\ i # currentIndex
    /\ \/ localFile[queue[i].url]
       \/ i = currentIndex + 1
       \/ i = currentIndex - 1
    /\ userOps' = userOps + 1
    /\ PlaySelected(i)
    /\ UNCHANGED playTimers
    /\ UNCHANGED playFrame

\* a Timer started by the detector or by the download callback fires
PlayTimerFire(k) ==
    /\ k \in 1..Len(playTimers)
    /\ playTimers' = RemoveAt(playTimers, k)
    /\ PlaySelected(IF playTimers[k] = CurrentAtFire THEN currentIndex
                    ELSE playTimers[k])
    /\ UNCHANGED userOps
    /\ UNCHANGED playFrame

\* the space key on the current episode: pause, or resume when the episode
\* has a local file that exists
TogglePlay ==
    /\ userOps < MaxPlayOps
    /\ currentIndex \in 1..Len(queue)
    /\ userOps' = userOps + 1
    /\ LET i == currentIndex
           u == queue[i].url
           q0 == [queue EXCEPT ![i].position = GetPlayerPosition(player)]
           q1 == FlushPosition(queue, player)
       IN  IF player.playing
           THEN /\ queue' = FlushPosition(q0, player)
                /\ player' = Stop(player)
                /\ exited' = "none"
                /\ UNCHANGED session
           ELSE IF localFile[u] /\ IsDownloaded(file, u)
           THEN /\ queue' = q1
                /\ player' = Play(player, q1[i])
                /\ session' = NoSession
                /\ exited' = "none"
           ELSE UNCHANGED <<queue, player, session, exited>>
    /\ UNCHANGED <<currentIndex, playTimers, dlCallVars>>
    /\ UNCHANGED playFrame

\* Player.seek(seconds) while the process runs; ipc: the request over the
\* socket succeeds, else playback is restarted at the new position
Seek(seconds) ==
    /\ userOps < MaxPlayOps
    /\ player.playing
    /\ player.process = "running"
    /\ userOps' = userOps + 1
    /\ \E ipc \in BOOLEAN :
         LET sum == player.position + seconds
             new_pos == Max(0, IF player.duration # 0
                               THEN Min(sum, player.duration) ELSE sum)
             u == player.current_episode
             q1 == [i \in 1..Len(queue) |->
                      IF queue[i].url = u
                      THEN [queue[i] EXCEPT !.position = new_pos]
                      ELSE queue[i]]
             pl1 == [player EXCEPT !.position = new_pos]
             ep == CHOOSE e \in SeqToSet(q1) : e.url = u
         IN  /\ queue' = q1
             /\ IF ipc \/ ~(localFile[u] /\ IsDownloaded(file, u))
                THEN /\ player' = pl1
                     /\ UNCHANGED <<session, exited>>
                ELSE /\ player' = Play(pl1, ep)
                     /\ session' = NoSession
                     /\ exited' = "none"
    /\ UNCHANGED <<currentIndex, playTimers, dlCallVars>>
    /\ UNCHANGED playFrame

\* one round of Player._monitor_position with answers from mpv: the
\* position, which does not go back, and the duration when it is unknown
\* or differs from the one of the episode
MonitorPosition ==
    /\ player.playing
    /\ player.process = "running"
    /\ LET u == player.current_episode IN
       \E p \in {x \in MediaPositions(u) : x >= player.position}
                \cup {player.position} :
         LET ask == \/ player.duration = 0
                    \/ \E i \in 1..Len(queue) :
                          queue[i].url = u /\ queue[i].duration # player.duration
             d == IF ask THEN MediaDuration(u) ELSE player.duration
         IN  /\ player' = [player EXCEPT !.position = p, !.duration = d]
             /\ queue' = [i \in 1..Len(queue) |->
                            IF queue[i].url = u
                            THEN [queue[i] EXCEPT
                                    !.position = p,
                                    !.duration = IF ask THEN d ELSE @]
                            ELSE queue[i]]
    /\ UNCHANGED <<currentIndex, session, exited, playTimers, userOps,
                   dlCallVars>>
    /\ UNCHANGED playFrame

\* the player process exits by itself; communicate() returns in its
\* monitor_player thread
ProcessExit ==
    /\ player.process = "running"
    /\ player' = [player EXCEPT !.process = "exited", !.watchers = @ + 1]
    /\ exited' = IF /\ player.duration > 0
                    /\ 100 * player.position >= 95 * player.duration
                 THEN "high" ELSE "low"
    /\ UNCHANGED <<queue, currentIndex, session, playTimers, userOps,
                   dlCallVars>>
    /\ UNCHANGED playFrame

\* a monitor_player thread, after communicate(): self.playing = False
WatcherFire ==
    /\ player.watchers > 0
    /\ player' = [player EXCEPT !.watchers = @ - 1, !.playing = FALSE]
    /\ UNCHANGED <<queue, currentIndex, session, exited, playTimers, userOps,
                   dlCallVars>>
    /\ UNCHANGED playFrame

\* one iteration of the loop of _playback_monitor
Poll ==
    /\ IF player.playing /\ currentIndex \in 1..Len(queue)
       THEN LET i == currentIndex
                u == queue[i].url
                duration == GetPlayerDuration(player)
                position == GetPlayerPosition(player)
                r == DetectorPoll(det, position, duration,
                                  player.process = "exited")
                hasNext == i + 1 <= Len(queue)
            IN  /\ det' = r.det
                /\ lastPoll' = [flag |-> r.flag, prev |-> lastPoll.flag,
                                fired |-> r.fire, prevFired |-> lastPoll.fired,
                                listed |-> r.listed,
                                pos |-> position, dur |-> duration,
                                prevPos |-> lastPoll.pos,
                                prevDur |-> lastPoll.dur]
                /\ IF r.abort
                   THEN /\ player' = [player EXCEPT !.playing = FALSE]
                        /\ session' = [session EXCEPT !.polled = TRUE]
                        /\ UNCHANGED <<queue, cache, cacheKeys, cleanTimers,
                                       playTimers>>
                   ELSE IF r.fire
                   THEN \E ok \in BOOLEAN :
                          LET m == MarkCompleted(FlushPosition(queue, player),
                                                 cache, cacheKeys, i, ok)
                          IN  /\ player' = Stop(player)
                              /\ queue' = m.queue
                              /\ cache' = m.cache
                              /\ cacheKeys' = m.cacheKeys
                              /\ cleanTimers' = IF localFile[u]
                                                THEN cleanTimers \cup {u}
                                                ELSE cleanTimers
                              /\ playTimers' = IF hasNext
                                               THEN Append(playTimers, i + 1)
                                               ELSE playTimers
                              /\ session' =
                                   [events |-> session.events + 1,
                                    scheduled |-> session.scheduled
                                        + (IF hasNext THEN 1 ELSE 0),
                                    polled |-> TRUE]
                   ELSE /\ session' = [session EXCEPT !.polled = TRUE]
                        /\ UNCHANGED <<player, queue, cache, cacheKeys,
                                       cleanTimers, playTimers>>
       ELSE IF player.process = "exited" /\ player.playing
       THEN /\ player' = [player EXCEPT !.playing = FALSE]
            /\ det' = ResetCounters(det)
            /\ lastPoll' = [lastPoll EXCEPT !.flag = FALSE, !.fired = FALSE]
            /\ UNCHANGED <<queue, cache, cacheKeys, cleanTimers, playTimers,
                           session>>
       ELSE UNCHANGED <<player, det, queue, cache, cacheKeys, cleanTimers,
                        playTimers, session, lastPoll>>
    /\ UNCHANGED <<feeds, hasSubs, syncPc, pullLeft, applied, seenMax, everDone,
                   allFailed>>
    /\ UNCHANGED dlVars
    /\ UNCHANGED <<currentIndex, exited>>
    /\ UNCHANGED upVars

\* the Timer(1.0) of mark_episode_completed fires: cleanup_file
CleanTimerFire(u) ==
    /\ u \in cleanTimers
    /\ cleanTimers' = cleanTimers \ {u}
    /\ file' = [file EXCEPT ![u] = "none"]
    /\ UNCHANGED <<downloads, failed, workers, retries, retryPc, userOps,
                   server, runs, lastRet, localFile, timers, lastCb, series>>
    /\ UNCHANGED recVars
    /\ UNCHANGED <<player, det, currentIndex, playTimers, lastPoll, session,
                   exited>>
    /\ UNCHANGED upVars

NextPlay ==
    \/ \E i \in 1..Cardinality(Urls) : UserPlay(i)
    \/ TogglePlay
    \/ \E seconds \in {-10, 10} : Seek(seconds)
    \/ MonitorPosition
    \/ ProcessExit
    \/ WatcherFire
    \/ Poll
    \/ \E k \in 1..Len(playTimers) : PlayTimerFire(k)
    \/ \E u \in Urls : CleanTimerFire(u)

\* playback of a queue of downloaded episodes: the user, the player and
\* its threads, the detector and the timers
SpecPlay == InitPlay /\ [][NextPlay]_vars
\* the same, where the loop of _playback_monitor and the monitor_player
\* threads keep running
SpecPlayFair ==
    /\ InitPlay
    /\ [][NextPlay]_vars
    /\ WF_vars(Poll)
    /\ WF_vars(WatcherFire)

\* ------------------------------------------------------ upload
\* the batches given to upload_episode_actions: none, one action, or an
\* action followed by a plain one
UploadBatches ==
    {<<>>} \cup {<<a>> : a \in UploadInputs}
    \cup {<<a, PlainAction>> : a \in UploadInputs}

\* the value upload_episode_actions returns: {} for no actions,
\* {"status": "no_actions"} when every action was skipped, else the reply of
\* the server or {"error": ...} when the request fails (ok is false)
UploadResult(as, formatted, ok) ==
    IF as = <<>> THEN "empty"
    ELSE IF formatted = <<>> THEN "no_actions"
    ELSE IF ok THEN "success"
    ELSE "error"

\* upload_episode_actions(as): the request carries the formatted records,
\* and is not made when there is none; every exception is caught inside
Upload(as) ==
    /\ \E ok \in BOOLEAN :
         LET formatted == FormatActions(gpodder, as)
         IN  /\ sent' = formatted
             /\ lastUpload' = [input |-> as,
                               requested |-> formatted # <<>>,
                               result |-> UploadResult(as, formatted, ok),
                               raised |-> FALSE]
    /\ UNCHANGED <<gpodder, lastPull, psync, clock, lastSync, running,
                   calls,
                   adders>>
    /\ UNCHANGED recVars
    /\ UNCHANGED dlVars
    /\ UNCHANGED plVars

NextUpload == \E as \in UploadBatches : Upload(as)

\* the sync client formatting what it uploads
SpecUpload == InitUpload /\ [][NextUpload]_vars

\* ------------------------------------------------------ position sync
\* the name of an episode url in an uploaded record
EpisodeName(u) == IF u = 1 THEN "media" ELSE "media2"

\* variant of ShouldSync: the thresholds are not looked at
ShouldSyncAlways(position, duration, now, last) ==
    position > 5 /\ duration > 0

\* should_sync of _position_sync_worker; last is the entry of the url in
\* last_sync_time and last_synced_position
ShouldSync(position, duration, now, last) ==
    /\ position > 5
    /\ duration > 0
    /\ \/ now - last.time > 30
       \/ Abs(position - last.pos) > 15

\* not self.gpodder.device_id or self.gpodder.device_id == "default"
Unresolved(id) == id = "" \/ id = NoneValue \/ id = "default"

\* time.sleep(10) of the loop goes by
Tick ==
    /\ clock < ClockStart + 10 * MaxTicks
    /\ clock' = clock + 10
    /\ UNCHANGED <<gpodder, sent, lastUpload, lastPull, psync, lastSync,
                   running, calls,
                   adders>>
    /\ UNCHANGED recVars
    /\ UNCHANGED dlVars
    /\ UNCHANGED plVars

\* one iteration of the loop of _position_sync_worker
PositionSync ==
    /\ IF player.playing /\ currentIndex \in 1..Len(queue)
       THEN LET u == queue[currentIndex].url
                position == GetPlayerPosition(player)
                duration == GetPlayerDuration(player)
                action == [podcast |-> "feed", episode |-> EpisodeName(u),
                           action |-> "play", timestamp |-> "iso",
                           device |-> Str(gpodder.device_id),
                           position |-> Num(position), started |-> Num(0),
                           total |-> Num(duration)]
                formatted == FormatActions(gpodder, <<action>>)
                seen == [uploaded |-> FALSE, url |-> u, playing |-> TRUE,
                         device |-> Str(gpodder.device_id), time |-> clock,
                         pos |-> position, last |-> lastSync.last]
            IN  IF /\ ShouldSync(position, duration, clock, psync[u])
                   /\ ~Unresolved(gpodder.device_id)
                THEN \E ok \in BOOLEAN :
                       LET result == UploadResult(<<action>>, formatted, ok)
                       IN  /\ sent' = formatted
                           /\ lastUpload' = [input |-> <<action>>,
                                             requested |-> formatted # <<>>,
                                             result |-> result,
                                             raised |-> FALSE]
                           /\ psync' = IF result # "error"
                                       THEN [psync EXCEPT ![u] =
                                               [time |-> clock, pos |-> position]]
                                       ELSE psync
                           /\ lastSync' =
                                 [seen EXCEPT
                                    !.uploaded = TRUE,
                                    !.last = IF ok
                                             THEN [@ EXCEPT ![u] =
                                                    [time |-> clock,
                                                     pos |-> position]]
                                             ELSE @]
                ELSE /\ lastSync' = seen
                     /\ UNCHANGED <<sent, lastUpload, psync>>
       ELSE /\ lastSync' = [lastSync EXCEPT !.uploaded = FALSE,
                                            !.playing = FALSE]
            /\ UNCHANGED <<sent, lastUpload, psync>>
    /\ UNCHANGED <<gpodder, lastPull, clock, running, calls,
                   adders>>
    /\ UNCHANGED recVars
    /\ UNCHANGED dlVars
    /\ UNCHANGED plVars

\* the state of InitPlay under a device id that is resolved, left at the
\* sentinel, or empty
InitPosSync ==
    /\ InitQueued
    /\ \E c \in {"default", "", "laptop"} :
          gpodder = NewClient("opodsync", c,
                              [status |-> "nobody", ids |-> <<>>],
                              [status |-> "error", ids |-> <<>>])
    /\ sent = <<>>
    /\ lastUpload = NoUpload
    /\ lastPull = NoPull
    /\ InitLoops

NextPosSync ==
    \/ \E i \in 1..Cardinality(Urls) : UserPlay(i)
    \/ TogglePlay
    \/ \E seconds \in {-10, 10} : Seek(seconds)
    \/ MonitorPosition
    \/ Tick
    \/ PositionSync

\* playback with the position-sync loop
SpecPosSync == InitPosSync /\ [][NextPosSync]_vars

\* ------------------------------------------------------ calls of play
\* what the steps of a call of play leave alone
callFrame == <<cache, cacheKeys, feeds, hasSubs, syncPc, pullLeft, applied,
               seenMax, everDone, allFailed, file, retries, retryPc, server,
               lastCb, det, cleanTimers, lastPoll, gpodder, sent, lastUpload,
               lastPull, psync, clock, lastSync, running, adders, playTimers, userOps,
               downloads, failed, workers, localFile, timers, runs, series,
               lastRet>>

\* the thread t calls play_selected(i) for an entry with a local file and
\* runs it up to the self.stop() of Player.play: the position is flushed,
\* the process self.process refers to is terminated and forgotten. The
\* Timer of the detector exists once an episode was played to its end and
\* names the entry after it; the Timer of the download callback names the
\* current entry and is started while nothing plays
EnterPlay(t, i) ==
    /\ calls.pc[t] = "idle"
    /\ calls.spawned
         + Cardinality({c \in Callers : calls.pc[c] = "spawn"}) < MaxSpawns
    /\ i \in 1..Len(queue)
    /\ t = "play_next" => i >= 2 /\ calls.spawned >= 1
    /\ t = "download" => i = currentIndex /\ ~player.playing
    /\ localFile[queue[i].url] /\ IsDownloaded(file, queue[i].url)
    /\ queue' = FlushPosition(queue, player)
    /\ player' = Stop(player)
    /\ calls' = [calls EXCEPT !.pc[t] = "spawn",
                              !.index[t] = i,
                              !.alive = @ \ {calls.handle},
                              !.handle = 0]
    /\ UNCHANGED <<currentIndex, session, exited>>
    /\ UNCHANGED callFrame

\* the thread t goes on in Player.play: the episode becomes the current
\* one, the process is started by Popen and kept in self.process; back in
\* play_selected the index becomes the current one
SpawnPlay(t) ==
    /\ calls.pc[t] = "spawn"
    /\ LET id == calls.spawned + 1 IN
         calls' = [calls EXCEPT !.pc[t] = "idle",
                                !.alive = @ \cup {id},
                                !.handle = id,
                                !.spawned = id]
    /\ player' = Spawn(player, queue[calls.index[t]])
    /\ currentIndex' = calls.index[t]
    /\ session' = NoSession
    /\ exited' = "none"
    /\ UNCHANGED queue
    /\ UNCHANGED callFrame

\* the player process id ends by itself; its monitor_player thread clears
\* self.playing
MpvExit(id) ==
    /\ id \in calls.alive
    /\ calls' = [calls EXCEPT !.alive = @ \ {id}]
    /\ player' = [player EXCEPT !.playing = FALSE,
                                !.process = IF id = calls.handle
                                            THEN "exited" ELSE @]
    /\ UNCHANGED <<queue, currentIndex, session, exited>>
    /\ UNCHANGED callFrame

\* the calls of play from the three threads, step by step
NextCalls ==
    \/ \E t \in Callers, i \in 1..Cardinality(Urls) : EnterPlay(t, i)
    \/ \E t \in Callers : SpawnPlay(t)
    \/ \E id \in 1..MaxSpawns : MpvExit(id)
    \/ MonitorPosition

SpecCalls == InitPlay /\ [][NextCalls]_vars

\* ------------------------------------------------------ monitor and stop
\* _monitor_position, first half of a round: the loop condition holds, the
\* command is sent and mpv answers the position p
MonitorAsk ==
    /\ player.playing
    /\ player.process = "running"
    /\ calls.tick = NoTick
    /\ \E p \in {x \in MediaPositions(player.current_episode) :
                    x >= player.position} \cup {player.position} :
         calls' = [calls EXCEPT !.tick = p]
    /\ UNCHANGED <<queue, player, currentIndex, session, exited>>
    /\ UNCHANGED callFrame

\* _monitor_position, second half of a round: the answer is written to the
\* player and to its current episode; the duration is asked for and written
\* when the socket still exists
MonitorWrite ==
    /\ calls.tick # NoTick
    /\ calls' = [calls EXCEPT !.tick = NoTick]
    /\ LET u == player.current_episode
           p == calls.tick
           ask == /\ player.playing
                  /\ player.process = "running"
                  /\ \/ player.duration = 0
                     \/ \E i \in 1..Len(queue) :
                           queue[i].url = u /\ queue[i].duration # player.duration
           d == IF ask THEN MediaDuration(u) ELSE player.duration
       IN  /\ player' = [player EXCEPT !.position = p, !.duration = d]
           /\ queue' = [i \in 1..Len(queue) |->
                          IF queue[i].url = u
                          THEN [queue[i] EXCEPT
                                  !.position = p,
                                  !.duration = IF ask THEN d ELSE @]
                          ELSE queue[i]]
    /\ UNCHANGED <<currentIndex, session, exited>>
    /\ UNCHANGED callFrame

\* playback and pause by the keys, the position monitor step by step
NextStop ==
    \/ \E i \in 1..Cardinality(Urls) : UserPlay(i)
    \/ TogglePlay
    \/ MonitorAsk
    \/ MonitorWrite

SpecStop == InitPlay /\ [][NextStop]_vars

\* ------------------------------------------------------ control socket
\* _monitor_position passes its loop condition and sends the position
\* query: _send_mpv_command connects and writes the request
MonitorSend ==
    /\ player.playing
    /\ player.process = "running"
    /\ calls.tick = NoTick
    /\ "monitor" \notin calls.pending
    /\ calls' = [calls EXCEPT !.pending = @ \cup {"monitor"}]
    /\ UNCHANGED <<queue, player, currentIndex, session, exited>>
    /\ UNCHANGED callFrame

\* mpv answers the position query with p: _send_mpv_command returns
MonitorReceive ==
    /\ "monitor" \in calls.pending
    /\ \E p \in {x \in MediaPositions(player.current_episode) :
                    x >= player.position} \cup {player.position} :
         calls' = [calls EXCEPT !.pending = @ \ {"monitor"}, !.tick = p]
    /\ UNCHANGED <<queue, player, currentIndex, session, exited>>
    /\ UNCHANGED callFrame

\* Player.seek(seconds) from the main loop, up to the request: the guards
\* pass, _send_mpv_command connects and writes the request
SeekSend(seconds) ==
    /\ userOps < MaxPlayOps
    /\ player.playing
    /\ player.process = "running"
    /\ "ui" \notin calls.pending
    /\ userOps' = userOps + 1
    /\ calls' = [calls EXCEPT !.pending = @ \cup {"ui"}, !.seek = seconds]
    /\ UNCHANGED <<queue, player, currentIndex, session, exited>>
    /\ UNCHANGED <<cache, cacheKeys, feeds, hasSubs, syncPc, pullLeft, applied,
                   seenMax, everDone, allFailed, file, retries, retryPc,
                   server, lastCb, det, cleanTimers, lastPoll, gpodder, sent,
                   lastUpload, lastPull, psync, clock, lastSync, running,
                   adders, playTimers, downloads, failed, workers, localFile, timers,
                   runs, series, lastRet>>

\* the seek request returns (ipc: with an answer) and Player.seek goes on:
\* the new position is written, and without an answer playback is
\* restarted at it
SeekReceive ==
    /\ "ui" \in calls.pending
    /\ calls' = [calls EXCEPT !.pending = @ \ {"ui"}, !.seek = 0]
    /\ \E ipc \in BOOLEAN :
         LET sum == player.position + calls.seek
             new_pos == Max(0, IF player.duration # 0
                               THEN Min(sum, player.duration) ELSE sum)
             u == player.current_episode
             q1 == [i \in 1..Len(queue) |->
                      IF queue[i].url = u
                      THEN [queue[i] EXCEPT !.position = new_pos]
                      ELSE queue[i]]
             pl1 == [player EXCEPT !.position = new_pos]
             ep == CHOOSE e \in SeqToSet(q1) : e.url = u
         IN  /\ queue' = q1
             /\ IF ipc \/ ~(localFile[u] /\ IsDownloaded(file, u))
                THEN /\ player' = pl1
                     /\ UNCHANGED <<session, exited>>
                ELSE /\ player' = Play(pl1, ep)
                     /\ session' = NoSession
                     /\ exited' = "none"
    /\ UNCHANGED currentIndex
    /\ UNCHANGED callFrame

\* playback by the keys, the requests of the position monitor and of the
\* seek keys step by step
NextSocket ==
    \/ \E i \in 1..Cardinality(Urls) : UserPlay(i)
    \/ MonitorSend
    \/ MonitorReceive
    \/ MonitorWrite
    \/ \E seconds \in {-10, 10} : SeekSend(seconds)
    \/ SeekReceive

SpecSocket == InitPlay /\ [][NextSocket]_vars

\* ------------------------------------------------------ additions
\* the state between _update_episode_actions_cache and _load_auto_queue of
\* a first run: the feeds are fetched, some urls have a cache entry made by
\* one play action, the queue is empty
InitAdders ==
    /\ \E keys \in {<<1>>, <<1, 2>>},
          a \in {x \in Actions : x.action = "play"} :
         /\ cacheKeys = keys
         /\ cache = [u \in Urls |->
                       IF InSeq(u, keys)
                       THEN ApplyToEntry(NewEntry, [a EXCEPT !.episode = u])
                       ELSE NewEntry]
         /\ seenMax = [u \in Urls |->
                         IF InSeq(u, keys) THEN GetPosition(a) ELSE 0]
         /\ everDone = [u \in Urls |->
                          /\ InSeq(u, keys)
                          /\ a.total # Absent
                          /\ AtLeast(ApplyToEntry(NewEntry, a).progress, 98)]
    /\ queue = <<>>
    /\ feeds = Urls
    /\ hasSubs = TRUE
    /\ syncPc = "idle"
    /\ pullLeft = 0
    /\ applied = 0
    /\ allFailed = FALSE
    /\ InitDownloads
    /\ InitPlayer
    /\ InitClient

\* what the additions to the queue leave alone
addFrame == <<cache, cacheKeys, feeds, hasSubs, syncPc, pullLeft, applied,
              seenMax, everDone, allFailed, file, retries, retryPc, userOps,
              server, lastRet, timers, lastCb, player, det, currentIndex,
              playTimers, cleanTimers, lastPoll, session, exited, gpodder,
              sent, lastUpload, lastPull, psync, clock, lastSync, running,
              calls>>

\* download_episode(episode) for u, without callback
QueueDownload(u) ==
    LET d == DownloadEpisode(DlState, u, FALSE, FALSE)
        started == Len(d.workers[u]) > Len(workers[u])
    IN  /\ downloads' = d.downloads
        /\ failed' = d.failed
        /\ workers' = d.workers
        /\ localFile' = d.localFile
        /\ runs' = [runs EXCEPT ![u] = IF started THEN 1 ELSE @]
        /\ series' = [series EXCEPT ![u] = IF started THEN "download" ELSE @]

\* the cache key a thread goes to after key k: 0 once the loop is over
NextKey(k) == IF k + 1 > Len(cacheKeys) THEN 0 ELSE k + 1

\* the thread t enters _load_auto_queue and runs its first loop: the
\* queued episodes are refreshed from the cache
LoadStart(t) ==
    /\ adders.k[t] = 0
    /\ adders.loads < MaxLoads
    /\ t = "manual" => ~adders.open
    /\ queue' = [i \in 1..Len(queue) |->
                   RefreshEpisode(queue[i],
                                  Status(cache, cacheKeys, queue[i].url))]
    /\ adders' = [adders EXCEPT !.k[t] = NextKey(0), !.loads = @ + 1]
    /\ UNCHANGED <<downloads, failed, workers, localFile, runs, series>>
    /\ UNCHANGED addFrame

\* the thread t evaluates should_add for the cache key it is at and looks
\* the episode up in the feeds
LoadCheck(t) ==
    /\ adders.k[t] \in 1..Len(cacheKeys)
    /\ ~adders.hold[t]
    /\ LET u == cacheKeys[adders.k[t]] IN
         adders' = IF ShouldAdd(cache[u], u, queue) /\ u \in feeds
                   THEN [adders EXCEPT !.hold[t] = TRUE]
                   ELSE [adders EXCEPT !.k[t] = NextKey(@)]
    /\ UNCHANGED <<queue, downloads, failed, workers, localFile, runs, series>>
    /\ UNCHANGED addFrame

\* the thread t appends the episode it found and starts its download
LoadAppend(t) ==
    /\ adders.k[t] \in 1..Len(cacheKeys)
    /\ adders.hold[t]
    /\ LET u == cacheKeys[adders.k[t]] IN
         /\ queue' = Append(queue, AutoEpisode(cache[u], u))
         /\ QueueDownload(u)
    /\ adders' = [adders EXCEPT !.hold[t] = FALSE, !.k[t] = NextKey(@)]
    /\ UNCHANGED addFrame

\* add_episodes_screen is opened: it lists the episodes of the feeds that
\* are not in the queue
OpenScreen ==
    /\ ~adders.open
    /\ adders.k["manual"] = 0
    /\ hasSubs
    /\ adders' = [adders EXCEPT !.open = TRUE,
                                !.items = feeds \ QueueUrls(queue)]
    /\ UNCHANGED <<queue, downloads, failed, workers, localFile, runs, series>>
    /\ UNCHANGED addFrame

\* Enter on the listed episode u: it is appended and its download started;
\* the screen is left when the list is empty
ScreenAdd(u) ==
    /\ adders.open
    /\ u \in adders.items
    /\ queue' = Append(queue, ScreenEpisode(Status(cache, cacheKeys, u), u))
    /\ QueueDownload(u)
    /\ adders' = [adders EXCEPT !.items = @ \ {u},
                                !.open = adders.items # {u}]
    /\ UNCHANGED addFrame

\* ESC on the add-episodes screen
CloseScreen ==
    /\ adders.open
    /\ adders' = [adders EXCEPT !.open = FALSE, !.items = {}]
    /\ UNCHANGED <<queue, downloads, failed, workers, localFile, runs, series>>
    /\ UNCHANGED addFrame

\* the additions to the queue by the two sync threads and by the screen
NextAdders ==
    \/ \E t \in Loaders : LoadStart(t) \/ LoadCheck(t) \/ LoadAppend(t)
    \/ OpenScreen
    \/ \E u \in Urls : ScreenAdd(u)
    \/ CloseScreen

SpecAdders == InitAdders /\ [][NextAdders]_vars

\* ------------------------------------------------------ removals
\* what the removals from the queue leave alone
cursorFrame == <<feeds, hasSubs, syncPc, pullLeft, applied, seenMax, everDone,
                 allFailed, downloads, failed, workers, retries, retryPc,
                 userOps, server, runs, lastRet, localFile, timers, lastCb,
                 series, det, playTimers, lastPoll, session, gpodder, sent,
                 lastUpload, lastPull, psync, clock, lastSync, running, calls,
                 adders>>

\* delete_episode(i) on the queue q: the entry is popped and its file
\* removed; the player is stopped when it is the current entry, the
\* current index is lowered when it is before the current entry
DeleteFrom(q, i) ==
    LET u == q[i].url
        q1 == RemoveAt(q, i)
    IN  /\ file' = IF localFile[u] THEN [file EXCEPT ![u] = "none"] ELSE file
        /\ IF i = currentIndex
           THEN /\ queue' = FlushPosition(q1, player)
                /\ player' = Stop(player)
                /\ exited' = "none"
                /\ currentIndex' = 0
           ELSE /\ queue' = q1
                /\ currentIndex' = IF i < currentIndex THEN currentIndex - 1
                                   ELSE currentIndex
                /\ UNCHANGED <<player, exited>>

\* the key 'd' on the queue entry i
DeleteEpisode(i) ==
    /\ i \in 1..Len(queue)
    /\ DeleteFrom(queue, i)
    /\ UNCHANGED <<cache, cacheKeys, cleanTimers>>
    /\ UNCHANGED cursorFrame

\* the key 'D' on the queue entry i: delete_and_mark_done (ok: the upload
\* of mark_episode_completed succeeded)
DeleteAndMarkDone(i, ok) ==
    /\ i \in 1..Len(queue)
    /\ LET m == MarkCompleted(queue, cache, cacheKeys, i, ok)
       IN  /\ cache' = m.cache
           /\ cacheKeys' = m.cacheKeys
           /\ DeleteFrom(m.queue, i)
    /\ cleanTimers' = IF localFile[queue[i].url]
                      THEN cleanTimers \cup {queue[i].url}
                      ELSE cleanTimers
    /\ UNCHANGED cursorFrame

\* the entries clear_completed_episodes keeps
NotCompleted(ep) == ~(ep.completed \/ ep.server_completed)

\* clear_completed_episodes: the completed entries are dropped; the player
\* is stopped when the current index is past the end of what is left
ClearCompleted ==
    /\ LET q1 == SelectSeq(queue, NotCompleted)
       IN  IF currentIndex > Len(q1)
           THEN /\ queue' = FlushPosition(q1, player)
                /\ player' = Stop(player)
                /\ exited' = "none"
                /\ currentIndex' = 0
           ELSE /\ queue' = q1
                /\ UNCHANGED <<player, exited, currentIndex>>
    /\ UNCHANGED <<cache, cacheKeys, cleanTimers, file>>
    /\ UNCHANGED cursorFrame

\* playback, completion marking and the removals from the queue
NextCursor ==
    \/ \E i \in 1..Cardinality(Urls) : UserPlay(i)
    \/ MonitorPosition
    \/ \E i \in 1..Cardinality(Urls), ok \in BOOLEAN :
          MarkEpisodeCompleted(i, ok)
    \/ \E i \in 1..Cardinality(Urls) : DeleteEpisode(i)
    \/ \E i \in 1..Cardinality(Urls), ok \in BOOLEAN :
          DeleteAndMarkDone(i, ok)
    \/ ClearCompleted

SpecCursor == InitPlay /\ [][NextCursor]_vars

\* ------------------------------------------------------ attribution
\* the thread t goes on in Player.play: the episode becomes the current
\* one of the player and the process is started; play returns True
StartPlay(t) ==
    /\ calls.pc[t] = "spawn"
    /\ LET id == calls.spawned + 1 IN
         calls' = [calls EXCEPT !.pc[t] = "index",
                                !.alive = @ \cup {id},
                                !.handle = id,
                                !.spawned = id]
    /\ player' = Spawn(player, queue[calls.index[t]])
    /\ session' = NoSession
    /\ exited' = "none"
    /\ UNCHANGED <<queue, currentIndex>>
    /\ UNCHANGED callFrame

\* the thread t is back in play_selected, after its sleep of 0.5 s: the
\* duration of the player is noted on an episode without one and the index
\* becomes the current one
SetIndex(t) ==
    /\ calls.pc[t] = "index"
    /\ calls' = [calls EXCEPT !.pc[t] = "idle"]
    /\ LET i == calls.index[t]
           duration == GetPlayerDuration(player)
       IN  /\ queue' = IF duration > 0 /\ queue[i].duration <= 0
                       THEN [queue EXCEPT ![i].duration = duration]
                       ELSE queue
           /\ currentIndex' = i
    /\ UNCHANGED <<player, session, exited>>
    /\ UNCHANGED callFrame

\* play_selected step by step on the main loop, with the position monitor
\* and the position-sync loop
NextAttrib ==
    \/ \E i \in 1..Cardinality(Urls) :
          calls.spawned < MaxPlayOps /\ EnterPlay("ui", i)
    \/ StartPlay("ui")
    \/ SetIndex("ui")
    \/ MonitorPosition
    \/ PositionSync

\* the state of InitPlay under a device id that is resolved
InitAttrib ==
    /\ InitQueued
    /\ gpodder = NewClient("opodsync", "laptop",
                           [status |-> "nobody", ids |-> <<>>],
                           [status |-> "error", ids |-> <<>>])
    /\ sent = <<>>
    /\ lastUpload = NoUpload
    /\ lastPull = NoPull
    /\ InitLoops

SpecAttrib == InitAttrib /\ [][NextAttrib]_vars

\* ------------------------------------------------------ shutdown
\* the dict _get_pending_actions builds for the episode ep
PendingAction(ep, kind) ==
    [podcast |-> "feed", episode |-> EpisodeName(ep.url), action |-> kind,
     timestamp |-> "isoZ", device |-> NoField,
     position |-> IF kind = "play" THEN Num(ep.position) ELSE NoNum,
     started |-> IF kind = "play" THEN Num(0) ELSE NoNum,
     total |-> IF kind = "play"
               THEN Num(IF ep.duration # 0 THEN ep.duration ELSE -1)
               ELSE NoNum]

\* _get_pending_actions, the loop over the queue from entry i on: a
\* download action for a completed episode, a play action for another
\* episode with a position that is not the current one
RECURSIVE PendingOfQueue(_, _, _)
PendingOfQueue(q, ci, i) ==
    IF i > Len(q) THEN <<>>
    ELSE LET ep == q[i]
             rest == PendingOfQueue(q, ci, i + 1)
         IN  IF ep.completed THEN <<PendingAction(ep, "download")>> \o rest
             ELSE IF ep.position > 0
                     /\ ~(ci \in 1..Len(q) /\ q[ci].url = ep.url)
             THEN <<PendingAction(ep, "play")>> \o rest
             ELSE rest

\* the queue after _get_pending_actions: the position of the playing
\* episode is raised to the one of the player
PendingQueue(q, pl, ci) ==
    IF pl.playing /\ ci \in 1..Len(q) /\ GetPlayerPosition(pl) > q[ci].position
    THEN [q EXCEPT ![ci].position = GetPlayerPosition(pl)]
    ELSE q

\* _get_pending_actions
GetPendingActions(q, pl, ci) ==
    LET q1 == PendingQueue(q, pl, ci)
    IN  (IF pl.playing /\ ci \in 1..Len(q)
         THEN <<PendingAction(q1[ci], "play")>> ELSE <<>>)
        \o PendingOfQueue(q1, ci, 1)

\* the key 'q' and the finally block of run: the player is stopped, the
\* pending actions are uploaded, the files are removed
Quit ==
    /\ running
    /\ running' = FALSE
    /\ LET q1 == FlushPosition(queue, player)
           pl1 == Stop(player)
           pending == GetPendingActions(q1, pl1, currentIndex)
           formatted == FormatActions(gpodder, pending)
       IN  /\ queue' = PendingQueue(q1, pl1, currentIndex)
           /\ player' = pl1
           /\ IF pending # <<>>
              THEN \E ok \in BOOLEAN :
                     /\ sent' = formatted
                     /\ lastUpload' =
                           [input |-> pending,
                            requested |-> formatted # <<>>,
                            result |-> UploadResult(pending, formatted, ok),
                            raised |-> FALSE]
              ELSE UNCHANGED <<sent, lastUpload>>
    /\ file' = [u \in Urls |-> "none"]
    /\ UNCHANGED <<cache, cacheKeys, feeds, hasSubs, syncPc, pullLeft, applied,
                   seenMax, everDone, allFailed>>
    /\ UNCHANGED <<downloads, failed, workers, retries, retryPc, userOps,
                   server, runs, lastRet, localFile, timers, lastCb, series>>
    /\ UNCHANGED <<det, currentIndex, playTimers, cleanTimers, lastPoll,
                   session, exited>>
    /\ UNCHANGED <<gpodder, lastPull, psync, clock, lastSync, calls,
                   adders>>

\* the keys of the main loop, the player, and the key 'q'
NextQuit ==
    \/ /\ running
       /\ \/ \E i \in 1..Cardinality(Urls) : UserPlay(i)
          \/ TogglePlay
          \/ \E seconds \in {-10, 10} : Seek(seconds)
          \/ MonitorPosition
    \/ Quit

\* playback up to the exit of the application
SpecQuit == InitPlay /\ [][NextQuit]_vars

\* ------------------------------------------------------ pull
\* a record of a reply that has every field
PlainPulled == [episode |-> "media2", action |-> "play", position |-> Num(30)]

\* the replies of the server: no record, one, or one before or after a
\* plain one
PulledBatches ==
    {<<>>} \cup {<<a>> : a \in PulledRecords}
    \cup {<<a, PlainPulled>> : a \in PulledRecords}
    \cup {<<PlainPulled, a>> : a \in PulledRecords}

\* get_episode_actions on a reply with the records as
Pull(as) ==
    /\ lastPull' = [input |-> as, actions |-> GetEpisodeActions(as)]
    /\ UNCHANGED <<gpodder, sent, lastUpload, psync, clock, lastSync, running,
                   calls,
                   adders>>
    /\ UNCHANGED recVars
    /\ UNCHANGED dlVars
    /\ UNCHANGED plVars

NextPull == \E as \in PulledBatches : Pull(as)

\* the sync client cleaning what it pulls
SpecPull == Init /\ [][NextPull]_vars

\* ------------------------------------------------------ device id
\* GPodderSync.__init__ before _resolve_device_id, under any configuration
InitResolve ==
    /\ InitSync
    /\ InitDownloads
    /\ InitPlayer
    /\ \E b \in Backends, c \in ConfiguredIds :
          gpodder = [backend |-> b, device_id |-> c, phase |-> "new",
                     configured |-> c,
                     listing |-> [status |-> "error", ids |-> <<>>],
                     registered |-> NoField]
    /\ sent = <<>>
    /\ lastUpload = NoUpload
    /\ lastPull = NoPull
    /\ InitLoops

clientFrame == <<sent, lastUpload, lastPull, psync, clock, lastSync, running,
                   calls,
                   adders>>

\* _resolve_device_id with the reply r to the device listing
ResolveDevice(r) ==
    /\ gpodder.phase = "new"
    /\ LET id == ResolveDeviceId(gpodder.backend, gpodder.device_id, r)
       IN  gpodder' = [gpodder EXCEPT
               !.device_id = id,
               !.listing = r,
               !.phase = "resolved",
               !.registered =
                   IF ResolveRegisters(gpodder.backend, gpodder.device_id, r)
                   THEN id ELSE @]
    /\ UNCHANGED clientFrame
    /\ UNCHANGED recVars
    /\ UNCHANGED dlVars
    /\ UNCHANGED plVars

\* _verify_device_registration with the reply v to its device listing
VerifyDevice(v) ==
    /\ gpodder.phase = "resolved"
    /\ gpodder' = [gpodder EXCEPT
            !.phase = "ready",
            !.registered =
                IF VerifyRegisters(gpodder.backend, gpodder.device_id, v)
                THEN gpodder.device_id ELSE @]
    /\ UNCHANGED clientFrame
    /\ UNCHANGED recVars
    /\ UNCHANGED dlVars
    /\ UNCHANGED plVars

NextResolve == \E r \in DeviceReplies : ResolveDevice(r) \/ VerifyDevice(r)

\* the construction of the sync client
SpecResolve == InitResolve /\ [][NextResolve]_vars

Next ==
    \/ NextSync \/ NextDL \/ NextPlay \/ NextUpload \/ NextPull
    \/ NextResolve \/ NextPosSync \/ NextQuit
    \/ NextCalls \/ NextStop \/ NextSocket \/ NextAdders
    \/ NextCursor \/ NextAttrib
Spec == Init /\ [][Next]_vars

\* ===================================================== the reconciler
\* a step of the loop of _update_episode_actions_cache
IsApplyStep == pullLeft' = pullLeft - 1
\* the step that runs _load_auto_queue
IsLoadStep == syncPc = "load" /\ syncPc' = "idle"
\* the fields of a cache entry other than the bookkeeping of the last action
Core(e) == <<e.position, e.total, e.progress, e.server_completed>>

\* C1: on the sync path, the position of every cache entry is the largest
\* position carried by the play actions applied to it since it was created
\* or last reset.
C1_MonotonicMerge ==
    \A u \in Urls : Status(cache, cacheKeys, u).position = seenMax[u]

\* a play action raised the position (to 49) of an entry whose progress
\* (60 %) still is the one of an earlier action
C1_Witness ==
    \E u \in Urls : /\ InSeq(u, cacheKeys)
                    /\ cache[u].position = 49
                    /\ seenMax[u] = 49
                    /\ cache[u].total = 50
                    /\ cache[u].progress = Frac(60, 1)

\* C2 as stated: server_completed is true exactly when the progress of the
\* entry is at least 98.
C2_CompletedIffProgress ==
    \A u \in Urls :
        cache[u].server_completed <=> AtLeast(cache[u].progress, 98)

\* C2 amended: server_completed is true exactly when some play action
\* applied since the entry was created or last reset brought the progress
\* to 98 or more; a progress of 98 or more implies server_completed, the
\* converse fails after a later action with a larger total.
C2_CompletedIffReached ==
    \A u \in Urls :
        /\ cache[u].server_completed <=> everDone[u]
        /\ AtLeast(cache[u].progress, 98) => cache[u].server_completed

\* an entry that is completed although its progress fell below 98
C2_Witness ==
    \E u \in Urls : /\ cache[u].server_completed
                    /\ Below(cache[u].progress, 98)
                    /\ cache[u].position = 48

\* C3: no applied action clears server_completed; the step that clears it
\* is the reset, which also zeroes position and progress.
C3_CompletedSticky ==
    [][\A u \in Urls :
          cache[u].server_completed /\ ~cache'[u].server_completed
          => /\ ~IsApplyStep
             /\ cache'[u].position = 0
             /\ cache'[u].progress = Zero]_vars

\* a download action was applied to a completed entry, which stays completed
C3_Witness ==
    \E u \in Urls : /\ cache[u].server_completed
                    /\ cache[u].last_action = "download"

\* C4: applying a download action leaves position, total, progress and
\* server_completed of the entry as they were.
C4_DownloadFrame ==
    [][IsApplyStep =>
         \A u \in Urls :
            cache'[u].last_action = "download"
            => Core(cache'[u]) = Core(cache[u])]_vars

\* an entry created by a download action alone: not completed
C4_Witness ==
    \E u \in Urls : /\ InSeq(u, cacheKeys)
                    /\ cache[u].last_action = "download"
                    /\ cache[u].last_timestamp = 2
                    /\ ~cache[u].server_completed
                    /\ cache[u].position = 0

\* C5: _load_auto_queue appends an episode of the feeds exactly when its
\* cache entry has position > 30 and progress < 95 and it is not queued
\* yet; it appends it once, and appends nothing else.
C5_AutoQueue ==
    [][IsLoadStep =>
         LET added == QueueUrls(queue') \ QueueUrls(queue) IN
         /\ \A u \in feeds :
               u \in added <=> /\ InSeq(u, cacheKeys)
                               /\ cache[u].position > 30
                               /\ Below(cache[u].progress, 95)
                               /\ u \notin QueueUrls(queue)
         /\ added \subseteq feeds
         /\ Len(queue') = Len(queue) + Cardinality(added)]_vars

\* of two episodes of the feeds, one without cache entry and one at 31 s of
\* 50 s, the second alone is queued
C5_Witness ==
    /\ feeds = {1, 2}
    /\ cacheKeys = <<2>>
    /\ cache[2].position = 31
    /\ cache[2].total = 50
    /\ syncPc = "idle"
    /\ Len(queue) = 1
    /\ queue[1].url = 2

\* C6 as stated: the refresh of the queued episodes by _load_auto_queue
\* never lowers a position and never clears server_completed.
C6_RefreshMonotonic ==
    [][IsLoadStep =>
         \A i \in 1..Len(queue) :
            /\ queue'[i].position >= queue[i].position
            /\ queue[i].server_completed => queue'[i].server_completed]_vars

\* ================================================ the download manager
\* getError reports a failure, no job is in the table, no retry is pending
Terminal(u) ==
    /\ u \notin downloads
    /\ workers[u] = <<>>
    /\ retries[u] = <<>>
    /\ failed[u] # NoFailure

\* C7: at most one _download_worker thread per url is alive, and it is the
\* one the table holds.
C7_AtMostOneWorker ==
    \A u \in Urls : /\ Len(workers[u]) <= 1
                    /\ Len(workers[u]) = 1 => u \in downloads

\* a second download_episode for a url whose worker is alive was refused
C7_Witness ==
    \E u \in Urls : /\ Len(workers[u]) = 1
                    /\ workers[u][1].pc = "connect"
                    /\ lastRet = [url |-> u, ret |-> FALSE, inflight |-> TRUE]

\* C8 as stated: for a url whose every attempt fails, a series of automatic
\* attempts has at most max_retries worker runs.
C8_RetryBound ==
    \A u \in Urls : server[u] = "down" => runs[u] <= max_retries

\* C9 as stated: with no intervention after the first request, a url whose
\* every attempt fails ends, for good, in the terminal failed state.
C9_RetryTerminates ==
    \A u \in Urls : (server[u] = "down") ~> [](Terminal(u))

\* C10 as stated: a download_episode called while a job for the url is in
\* the table returns false.
C10_InFlightRejected ==
    lastRet.inflight => ~lastRet.ret

\* C11 as stated: is_downloaded is true only for a file that a worker wrote
\* to its end; it is false while a worker writes and after a failure.
C11_NoPartialVisible ==
    \A u \in Urls : IsDownloaded(file, u) => file[u] = "complete"

\* C12 as stated: the callback is called only by a worker that has written
\* the file to its end.
C12_CallbackAfterSuccess ==
    lastCb.url # NoUrl => lastCb.file = "complete" /\ lastCb.by = "worker"

\* C13 as stated: the series of attempts that retry_download starts for a
\* url whose every attempt fails has at most max_retries worker runs.
C13_ManualRetryBound ==
    \A u \in Urls :
        series[u] = "manual" /\ server[u] = "down" => runs[u] <= max_retries

\* ======================================================== the detector
\* a step in which the detector confirms a completion
IsCompletionStep == session'.events > session.events
\* the four counters of the detector are cleared
CountersCleared == det = ResetCounters(det)
\* the episode the player plays, or played last, is marked completed
CurrentCompleted ==
    \E i \in 1..Len(queue) :
        queue[i].url = player.current_episode /\ queue[i].completed

\* C14: a poll confirms a completion exactly when its completion flag is
\* true and the flag of the poll before it was true and did not itself
\* confirm one; so a single flagged poll confirms nothing, and neither does
\* a flagged poll that follows an unflagged one.
C14_Debounce ==
    lastPoll.fired <=> (lastPoll.flag /\ lastPoll.prev /\ ~lastPoll.prevFired)

\* a single poll with position = duration, after an unflagged poll, did not
\* confirm a completion
C14_Witness ==
    /\ lastPoll.flag
    /\ ~lastPoll.prev
    /\ ~lastPoll.fired
    /\ lastPoll.dur > 0
    /\ lastPoll.pos = lastPoll.dur
    /\ player.playing

C16_FlagOnlyListed ==
    lastPoll.flag => lastPoll.listed

\* C17 as stated: once the process has exited below 95 % and playback is
\* idle, the counters of the detector are cleared and no completion was
\* confirmed.
C17_ExitResetsIdle ==
    (exited = "low" /\ ~player.playing)
    => CountersCleared /\ session.events = 0

\* C18 as stated: after the process has exited by itself at 95 % or more
\* of the duration, the episode is eventually marked completed, unless the
\* user stops or restarts playback first.
C18_NaturalEnd ==
    (exited = "high") ~> (CurrentCompleted \/ exited = "none")

\* C19 as stated: every confirmed completion leaves a cache entry for the
\* episode with server_completed and the position at 99 % of the duration,
\* whether or not the upload succeeded.
C19_CompletionCached ==
    [][IsCompletionStep =>
         LET u == queue[currentIndex].url IN
         /\ InSeq(u, cacheKeys')
         /\ cache'[u].server_completed
         /\ cache'[u].position = (queue'[currentIndex].duration * 99) \div 100]_vars

\* C20 as stated: under opodsync every record sent has a non-empty device
\* and a timestamp that ends in 'Z'; under nextcloud none has a device.
C20_DeviceDialect ==
    \A k \in 1..Len(sent) :
        /\ gpodder.backend = "opodsync"
           => /\ sent[k].device # NoField
              /\ sent[k].device # ""
              /\ sent[k].timestamp.z
        /\ gpodder.backend = "nextcloud" => sent[k].device = NoField

\* ===================================================== the sync client
\* C21 as stated: under nextcloud no timestamp that is sent ends in 'Z',
\* whatever the timestamp of the input action is.
C21_NextcloudNoZ ==
    gpodder.backend = "nextcloud"
    => \A k \in 1..Len(sent) : ~sent[k].timestamp.z

\* the record r, as sent, satisfies the EpisodeAction invariant
WellFormedSent(r) ==
    /\ r.podcast # "" /\ r.podcast # NoField
    /\ r.episode # "" /\ r.episode # NoField
    /\ r.position.kind = "num" => r.position.n >= 0
    /\ r.started.kind = "num" => r.started.n >= 0
    /\ r.total.kind = "num" => r.total.n > 0
    /\ r.position.kind # "bad" /\ r.started.kind # "bad" /\ r.total.kind # "bad"

\* C22 as stated: every record sent has a non-empty podcast and episode,
\* non-negative position and started, and a total only when it is > 0; the
\* records sent are those of the input that have a podcast and an episode;
\* a request is made exactly when there is a record to send.
C22_SentInvariant ==
    /\ \A k \in 1..Len(sent) : WellFormedSent(sent[k])
    /\ Len(sent) = Cardinality({k \in 1..Len(lastUpload.input) :
                                   ~Skipped(lastUpload.input[k])})
    /\ lastUpload.requested <=> sent # <<>>

\* the pulled record a has an episode and an action that are strings
WellFormedPulled(a) ==
    /\ a.episode # NoField /\ a.episode # NoneValue
    /\ a.action # NoField /\ a.action # NoneValue

\* C23 as stated: every well-formed record of a reply is among the actions
\* get_episode_actions returns, whatever the other records of the reply
\* are.
C23_OnlyMalformedDropped ==
    \A k \in 1..Len(lastPull.input) :
        WellFormedPulled(lastPull.input[k])
        => \E j \in 1..Len(lastPull.actions) :
              /\ lastPull.actions[j].episode = lastPull.input[k].episode
              /\ lastPull.actions[j].action = Lower(lastPull.input[k].action)

\* the ids of the listing l that are present
ListedIds(l) == {l.ids[k] : k \in 1..Len(l.ids)} \ {NoField}

\* C24 as stated: resolving the sentinel 'default' under opodsync picks a
\* listed id that has the tag, else the first id of the listing, else the
\* synthesized id, which it registers; afterwards the id is never 'default'.
C24_ResolveOrder ==
    (/\ gpodder.phase # "new"
     /\ gpodder.configured = "default"
     /\ gpodder.backend = "opodsync")
    => LET ids == ListedIds(gpodder.listing)
       IN  /\ gpodder.device_id # "default"
           /\ IF \E id \in ids : HasTag(id)
              THEN HasTag(gpodder.device_id) /\ gpodder.device_id \in ids
              ELSE IF ids # {}
              THEN \E k \in 1..Len(gpodder.listing.ids) :
                      /\ gpodder.listing.ids[k] = gpodder.device_id
                      /\ \A j \in 1..(k - 1) : gpodder.listing.ids[j] = NoField
              ELSE /\ gpodder.device_id = "litepop-host"
                   /\ gpodder.listing.status = "list"
                      => gpodder.registered = "litepop-host"

\* C25: an iteration of the position-sync loop uploads only when an episode
\* is playing, the device id is not empty and not 'default', and more than
\* 30 s have passed or the position moved by more than 15 s since the last
\* successful upload for that url (so none follows a successful upload
\* until a threshold is exceeded again).
C25_SyncThresholds ==
    [][(lastSync'.uploaded /\ lastSync' # lastSync)
       => /\ player.playing
          /\ lastSync'.playing
          /\ lastSync'.device # "" /\ lastSync'.device # "default"
          /\ lastSync'.device # "None"
          /\ LET before == lastSync.last[lastSync'.url]
             IN  \/ lastSync'.time - before.time > 30
                 \/ Abs(lastSync'.pos - before.pos) > 15]_vars

\* a successful upload at position 569, 10 s later an iteration at 570 that
\* does not upload
C25_Witness ==
    /\ ~lastSync.uploaded
    /\ lastSync.playing
    /\ lastSync.url = 2
    /\ lastSync.pos = 570
    /\ lastSync.last[2].pos = 569
    /\ lastSync.time = lastSync.last[2].time + 10

\* ===================================================== shutdown
\* C26 as stated: when the application exits while an episode plays at a
\* position p > 0, the episode gets the position p and a play action for
\* it that carries p is among the actions uploaded.
C26_ShutdownFlush ==
    [][(/\ running /\ ~running'
        /\ player.playing
        /\ player.position > 0
        /\ currentIndex \in 1..Len(queue)
        /\ queue[currentIndex].url = player.current_episode)
       => /\ ~player'.playing
          /\ queue'[currentIndex].position = player.position
          /\ \E k \in 1..Len(sent') :
                /\ sent'[k].episode = EpisodeName(player.current_episode)
                /\ sent'[k].action = "play"
                /\ sent'[k].position = Num(player.position)]_vars

\* ------------------------------------------------------ failed requests
\* a step of a run of _sync_with_gpodder all of whose requests failed
IsFailedRunStep ==
    \/ syncPc = "idle" /\ syncPc' = "pull" /\ allFailed'
    \/ syncPc # "idle" /\ syncPc' # syncPc /\ allFailed

\* C27: a run of the full sync in which every request fails leaves the
\* status cache and the queue as they were, ends, and leaves the sync loop
\* running; an upload reports its failure as a result and raises nothing
C27_FailedSyncHarmless ==
    [][IsFailedRunStep
         => /\ cache' = cache
            /\ cacheKeys' = cacheKeys
            /\ queue' = queue
            /\ running'
            /\ ~lastUpload'.raised]_vars

\* ------------------------------------------------------ concurrent updates
\* the reset key lowered the entry of u
IsResetStep(u) ==
    /\ cache'[u].position = 0
    /\ cache'[u].progress = Zero
    /\ ~cache'[u].server_completed
    /\ syncPc' = syncPc
    /\ pullLeft' = pullLeft

\* C28: from one state to the next the position of a cache entry never
\* decreases, whether the step is one of the pull of a full sync or a
\* completion marking, in every interleaving of them; only the reset key
\* lowers it
C28_NoRegression ==
    [][\A u \in Urls :
          Status(cache, cacheKeys, u)'.position
              < Status(cache, cacheKeys, u).position
          => IsResetStep(u)]_vars

\* ------------------------------------------------------ player processes
\* C29: at most one player process started by Player.play is alive at any
\* time, also when play is called at once from the main loop, from the
\* Timer of the completion detector and from the Timer of the download
\* callback
C29_SingleProcess == Cardinality(calls.alive) <= 1

\* ------------------------------------------------------ stop and the monitor
\* the player and the queue after one call of Player.stop
StopOnce(q, pl) == [queue |-> FlushPosition(q, pl), player |-> Stop(pl)]

\* a second call of Player.stop changes nothing
StopIdempotent ==
    LET once == StopOnce(queue, player)
    IN  StopOnce(once.queue, once.player) = once

\* the position monitor writes an answer it got before playback was stopped
IsStaleTick == calls.tick # NoTick /\ calls'.tick = NoTick /\ ~player.playing

\* C30: a second call of stop, or a call while nothing plays, gives the
\* player and the episodes of one call; a round of the position monitor
\* that races with stop is dropped: it changes neither the position flushed
\* to the episode nor the player
C30_StopSafe ==
    /\ []StopIdempotent
    /\ [][IsStaleTick => queue' = queue /\ player' = player]_vars


\* ------------------------------------------------------ socket requests
\* C31: at most one request over the control socket is outstanding at any
\* time: a seek request of the main loop never overlaps a query of the
\* position monitor
C31_OneRequest == Cardinality(calls.pending) <= 1

\* ------------------------------------------------------ queue identity
\* C32: in every reachable state no two entries of the queue have the same
\* url, also when two threads run _load_auto_queue at once and when the
\* user adds an episode from the add-episodes screen during a sync
C32_NoDuplicateUrl ==
    \A i, j \in 1..Len(queue) : queue[i].url = queue[j].url => i = j

\* ------------------------------------------------------ playback cursor
\* an entry was removed from the queue
IsRemovalStep == Len(queue') < Len(queue)

\* C33: after delete_episode or clear_completed_episodes the current index
\* is -1 (0 here) with the current episode removed and playback stopped,
\* or it refers to the episode it referred to before; it always lies
\* within the queue
C33_CursorKept ==
    [][IsRemovalStep =>
         /\ currentIndex' \in 0..Len(queue')
         /\ \/ /\ currentIndex' = 0
               /\ ~player'.playing
               /\ currentIndex \in 1..Len(queue)
                    => queue[currentIndex].url \notin QueueUrls(queue')
            \/ /\ currentIndex' \in 1..Len(queue')
               /\ currentIndex \in 1..Len(queue)
               /\ queue'[currentIndex'].url = queue[currentIndex].url]_vars

\* ------------------------------------------------------ attribution
\* the position-sync loop uploaded a play action in this step
IsSyncUploadStep == lastSync' # lastSync /\ lastSync'.uploaded

\* C34: when the position-sync loop uploads a play action, the episode it
\* names, the one at the current index, is the current episode of the
\* player, whose position and duration it reports, also while play_selected
\* runs (the playback monitor reads the same pair in the same way)
C34_RightEpisode ==
    [][IsSyncUploadStep => lastSync'.url = player.current_episode]_vars

\* ------------------------------------------------------ stale watcher
\* C35: while the process started by the latest play runs and stop has not
\* been called, Player.playing stays true, also when the monitor_player
\* thread of an earlier process wakes up after the new playback started
C35_WatcherKeepsSession ==
    [][(/\ player.playing
        /\ player.process = "running"
        /\ player'.process = "running")
       => player'.playing]_vars

\* C36: the poll that confirms a completion is not the first poll of its
\* playback: an earlier poll was taken while the same episode was playing in
\* the same playback (by C14 that poll was flagged), so no count from
\* another episode or an earlier playback contributes.
C36_OwnPolls ==
    [][IsCompletionStep => session.polled]_vars

\* ------------------------------------------------------------ the reset
\* the cache entry of u is as the reset key left it
IsResetEntry(u) ==
    /\ InSeq(u, cacheKeys)
    /\ cache[u].last_timestamp = Now
    /\ cache[u].position = 0
    /\ ~cache[u].server_completed

\* C37: when the pull of a full sync applies an action older than the
\* reset to the cache entry of an episode that was reset, the entry keeps
\* position 0 and stays not completed.
C37_ResetDurable ==
    [][\A u \in Urls :
          (IsResetEntry(u) /\ cache'[u].last_timestamp < Now)
          => (cache'[u].position = 0 /\ ~cache'[u].server_completed)]_vars

\* ---------------------------------------------------- entry consistency
\* C38: once a call of _update_episode_actions_cache has applied its
\* actions, every cache entry with total > 0 has
\* progress = min(100, position / total * 100), between 0 and 100, also
\* when the call applied a play action with a position and no positive
\* total.
C38_EntryConsistent ==
    pullLeft = 0 =>
      \A u \in Urls :
         (InSeq(u, cacheKeys) /\ cache[u].total > 0)
         => /\ cache[u].progress
                 = Cap100(Percent(cache[u].position, cache[u].total))
            /\ AtLeast(cache[u].progress, 0)
            /\ cache[u].progress.num <= 100 * cache[u].progress.den

\* ------------------------------------------- completion, there and back
\* the action mark_episode_completed gives to upload_episode_actions for
\* the episode ep
CompletionAction(ep) ==
    LET final_position == IF ep.duration > 0
                          THEN (ep.duration * 99) \div 100
                          ELSE ep.position
        total_duration == IF ep.duration > 0 THEN ep.duration
                          ELSE final_position
    IN  [podcast |-> "feed", episode |-> EpisodeName(ep.url),
         action |-> "play", timestamp |-> "isoZ", device |-> NoField,
         position |-> Num(final_position), started |-> Num(0),
         total |-> Num(total_duration)]

\* the action get_episode_actions returns for the record r that was sent
\* for the episode u: the numeric fields are cleaned, a field that was not
\* sent is not there
PulledBack(r, u) ==
    LET count(x) == IF CleanCount(x).kind = "num" THEN CleanCount(x).n
                    ELSE Absent
    IN  [episode |-> u, action |-> Lower(r.action), timestamp |-> Now,
         position |-> count(r.position), total |-> count(r.total)]

\* a later run of the program, whose cache and queue start empty, pulls the
\* action that was uploaded for the completed queue entry i and applies it;
\* the feeds are fetched, _load_auto_queue comes next
PullCompletion(i) ==
    /\ syncPc = "idle"
    /\ i \in 1..Len(queue)
    /\ queue[i].completed
    /\ InSeq(queue[i].url, cacheKeys)
    /\ LET u == queue[i].url
           r == FormatAction(gpodder, CompletionAction(queue[i]))
       IN  /\ cache' = [v \in Urls |->
                          IF v = u THEN ApplyToEntry(NewEntry, PulledBack(r, u))
                          ELSE NewEntry]
           /\ cacheKeys' = <<u>>
           /\ sent' = <<r>>
    /\ queue' = <<>>
    /\ syncPc' = "load"
    /\ cleanTimers' = {}
    /\ UNCHANGED <<feeds, hasSubs, pullLeft, applied, seenMax, everDone,
                   allFailed>>
    /\ UNCHANGED dlVars
    /\ UNCHANGED <<player, det, currentIndex, playTimers, lastPoll, session,
                   exited>>
    /\ UNCHANGED <<gpodder, lastUpload, lastPull, psync, clock, lastSync,
                   running, calls, adders>>

NextTrip ==
    \/ \E i \in 1..Cardinality(Urls), ok \in BOOLEAN : MarkEpisodeCompleted(i, ok)
    \/ \E i \in 1..Cardinality(Urls) : PullCompletion(i)
    \/ SyncLoad

\* an episode of any duration is marked completed, and the action uploaded
\* for it is pulled by a later run
SpecTrip == InitTrip /\ [][NextTrip]_vars

\* C39: in the run that pulled the completion action of an episode of known
\* duration into its empty cache, the entry of the episode is completed
\* (progress >= 98) and _load_auto_queue does not add the episode, whatever
\* the duration.
C39_RoundTrip ==
    \A u \in Urls :
       (InSeq(u, cacheKeys) /\ sent # <<>>)
       => /\ cache[u].server_completed
          /\ AtLeast(cache[u].progress, 98)
          /\ u \notin QueueUrls(queue)

\* what does hold after the pull: the episode is not added to the queue
\* again
TripNotReAdded ==
    \A u \in Urls :
       (InSeq(u, cacheKeys) /\ sent # <<>>) => u \notin QueueUrls(queue)

\* ------------------------------------------------------- the job table
\* the retry thread of u wakes up and calls download_episode
IsRetryCall(u) ==
    /\ retries[u] # <<>>
    /\ retries'[u] = Tail(retries[u])
    /\ file[u] = "none"

\* every url in the table leaves it: the worker that holds it ends
TableCleanup ==
    \A u \in Urls : (u \in downloads) ~> (u \notin downloads)

\* the call made by a retry thread is not refused
RetryAccepted ==
    [][\A u \in Urls : IsRetryCall(u) => lastRet'.ret]_vars

\* C40: every worker that ends, with the file or with a failure, takes its
\* url out of the table, so that is_downloading becomes false after each
\* attempt; and the download_episode of an automatic retry is never refused
\* as "already downloading" on account of the worker that scheduled it.
C40_JobTableCleanup == TableCleanup /\ RetryAccepted

====
